---- MODULE Spec2Model ----
(***************************************************************************)
(* A model of the kasupel game server: the chess rules of                  *)
(* server/gamemodes/chess.py, the socket event handlers of                 *)
(* server/events/games.py, the turn counter of server/models.py and the    *)
(* clocks of server/timing.py, for one game.                               *)
(*                                                                         *)
(* Conventions.                                                            *)
(*  - The Piece table of the game is the variable board: one row per       *)
(*    occupied square; a row's primary key is identified with the square   *)
(*    it occupies between requests.                                        *)
(*  - A Python function that returns a bool or raises is an operator       *)
(*    whose value is "True", "False" or the name of the exception.         *)
(*  - An unhandled exception ends the request: what was saved before it    *)
(*    stays saved, what was only changed on the in-memory Game is lost.    *)
(*  - server/models.py names the host side HOME (home_time, Winner.HOME),  *)
(*    the rest of the server names it HOST (server/enums.py); the two are  *)
(*    the same side here, and game.game_mode is the Chess instance.        *)
(*  - Times are integers; datetime.now() is the variable now.              *)
(***************************************************************************)
EXTENDS Integers, Sequences, FiniteSets, TLC

VARIABLES board, current_turn, turn_number, last_kill_or_pawn_move, states,
          host_time, away_time, last_turn, main_thinking_time,
          fixed_extra_time, time_increment_per_turn,
          host_offering_draw, away_offering_draw, other_valid_draw_claim,
          winner, conclusion_type, ended_at, rated, timer_alive, now, last,
          request

vars == <<board, current_turn, turn_number, last_kill_or_pawn_move, states,
          host_time, away_time, last_turn, main_thinking_time,
          fixed_extra_time, time_increment_per_turn,
          host_offering_draw, away_offering_draw, other_valid_draw_claim,
          winner, conclusion_type, ended_at, rated, timer_alive, now, last,
          request>>

(***************************************************************************)
(* Bounds of the model.                                                    *)
(***************************************************************************)
MaxNow == 3
MaxDelay == 1
MaxRated == 2

(***************************************************************************)
(* Basic values.                                                           *)
(***************************************************************************)
Ranks == 0..7
Files == 0..7
Squares == Ranks \X Files
Sides == {"HOST", "AWAY"}
PieceTypes == {"PAWN", "ROOK", "KNIGHT", "BISHOP", "QUEEN", "KING"}
Exceptions == {"AttributeError", "DoesNotExist", "RuntimeError",
               "UnboundLocalError", "TypeError"}
NoTime == -1

Abs(n) == IF n < 0 THEN -n ELSE n
Max2(a, b) == IF a > b THEN a ELSE b
Bool(p) == IF p THEN "True" ELSE "False"
IsExc(r) == r \in Exceptions

\* enums.Side.__invert__
other(side) == IF side = "HOST" THEN "AWAY" ELSE "HOST"

\* enums.Side.forwards
forwards(side) == IF side = "HOST" THEN 1 ELSE -1

\* An empty square of the Piece table.
Empty == [piece_type |-> "NONE", side |-> "NONE", has_moved |-> FALSE,
          first_move_last_turn |-> FALSE]

\* Python's None where a piece object is expected.
None == [id |-> <<-1, -1>>, rank |-> -1, file |-> -1, piece_type |-> "NONE",
         side |-> "NONE", has_moved |-> FALSE, first_move_last_turn |-> FALSE]

\* The models.Piece row standing on (rank, file).
Row(b, rank, file) ==
    [id |-> <<rank, file>>, rank |-> rank, file |-> file,
     piece_type |-> b[<<rank, file>>].piece_type,
     side |-> b[<<rank, file>>].side,
     has_moved |-> b[<<rank, file>>].has_moved,
     first_move_last_turn |-> b[<<rank, file>>].first_move_last_turn]

\* All rows of the game, and those of one side.
Rows(b) == {Row(b, sq[1], sq[2]) : sq \in {s \in Squares : b[s] # Empty}}
RowsOf(b, side) == {p \in Rows(b) : p.side = side}

\* chess.MockPiece.__init__
MockPiece(base, rank, file, p_type) ==
    [id |-> <<-2, -2>>, rank |-> rank, file |-> file, piece_type |-> p_type,
     side |-> base.side, has_moved |-> TRUE,
     first_move_last_turn |-> ~base.has_moved]

\* Chess.on_board
on_board(rank, file) == 7 >= rank /\ rank >= 0 /\ 7 >= file /\ file >= 0

\* get_piece reading the Piece table only, blind to the hypothetical moves.
get_piece_stored(b, hm, rank, file) ==
    IF on_board(rank, file) /\ b[<<rank, file>>] # Empty
    THEN Row(b, rank, file)
    ELSE None

\* Chess.get_piece: hm is self.hypothetical_moves (<<>> when None or empty),
\* a sequence of [piece, rank, file, promotion]; the first entry landing on
\* the square wins, otherwise the Piece table is read.  The square a moved
\* piece came from is NOT masked.
get_piece(b, hm, rank, file) ==
    LET hits == {i \in 1..Len(hm) : hm[i].rank = rank /\ hm[i].file = file}
    IN  IF hits # {}
        THEN LET move == hm[CHOOSE i \in hits : \A j \in hits : i <= j]
                 p_type == IF move.promotion # "NONE" THEN move.promotion
                           ELSE move.piece.piece_type
             IN  MockPiece(move.piece, rank, file, p_type)
        ELSE IF on_board(rank, file) /\ b[<<rank, file>>] # Empty
             THEN Row(b, rank, file)
             ELSE None

\* Chess.path_is_empty: victim.side is read without testing victim, so an
\* empty destination raises AttributeError.
path_is_empty(b, hm, piece, rank, file) ==
    LET file_delta == file - piece.file
        rank_delta == rank - piece.rank
        steps == Max2(Abs(file_delta), Abs(rank_delta))
        file_step == file_delta \div steps
        rank_step == rank_delta \div steps
        victim == get_piece(b, hm, rank, file)
    IN  IF \E step \in 1..(steps - 1) :
              get_piece(b, hm, piece.rank + step * rank_step,
                        piece.file + step * file_step) # None
        THEN "False"
        ELSE IF victim = None THEN "AttributeError"
        ELSE Bool(victim.side # piece.side)

\* Chess.validate_pawn_move
validate_pawn_move(b, hm, pawn, rank, file, promotion, validate_promotion) ==
    LET absolute_file_delta == Abs(file - pawn.file)
        relative_rank_delta == forwards(pawn.side) * (rank - pawn.rank)
        far_rank == IF pawn.side = "HOST" THEN 7 ELSE 0
        victim == get_piece(b, hm, rank, file)
        en_passant_pawn == get_piece(b, hm, pawn.rank, file)
        en_passant_valid ==
            /\ en_passant_pawn # None
            /\ en_passant_pawn.side # pawn.side
            /\ en_passant_pawn.first_move_last_turn
            /\ pawn.rank = (IF pawn.side = "HOST" THEN 4 ELSE 3)
    IN  IF relative_rank_delta = 0 THEN "False"
        ELSE IF relative_rank_delta = 1 THEN
            IF validate_promotion /\ rank = far_rank /\ promotion = "NONE"
            THEN "False"
            ELSE IF validate_promotion /\ rank = far_rank
                    /\ promotion \in {"PAWN", "KING"}
            THEN "False"
            ELSE IF validate_promotion /\ rank # far_rank
                    /\ promotion # "NONE"
            THEN "False"
            ELSE IF absolute_file_delta = 0 THEN Bool(victim = None)
            ELSE IF absolute_file_delta = 1 THEN
                IF victim # None THEN Bool(victim.side # pawn.side)
                ELSE Bool(en_passant_valid)
            ELSE "False"
        ELSE IF relative_rank_delta = 2 THEN
            IF absolute_file_delta # 0 THEN "False"
            ELSE IF pawn.has_moved THEN "False"
            ELSE Bool(get_piece(b, hm, rank, file) = None
                      /\ get_piece(b, hm, rank - forwards(pawn.side), file)
                         = None)
        ELSE "False"

\* Chess.validate_rook_move: rank_delta is taken against rook.file.
validate_rook_move(b, hm, rook, rank, file, promotion) ==
    LET file_delta == file - rook.file
        rank_delta == rank - rook.file
    IN  IF promotion # "NONE" THEN "False"
        ELSE IF file_delta # 0 /\ rank_delta # 0 THEN "False"
        ELSE path_is_empty(b, hm, rook, rank, file)

\* Chess.validate_knight_move
validate_knight_move(b, hm, knight, rank, file, promotion) ==
    LET absolute_file_delta == Abs(file - knight.file)
        absolute_rank_delta == Abs(rank - knight.rank)
        victim == get_piece(b, hm, rank, file)
    IN  IF promotion # "NONE" THEN "False"
        ELSE IF <<absolute_file_delta, absolute_rank_delta>>
                \notin {<<1, 2>>, <<2, 1>>}
        THEN "False"
        ELSE Bool(victim = None \/ victim.side # knight.side)

\* Chess.validate_bishop_move
validate_bishop_move(b, hm, bishop, rank, file, promotion) ==
    LET absolute_file_delta == Abs(file - bishop.file)
        absolute_rank_delta == Abs(rank - bishop.rank)
    IN  IF promotion # "NONE" THEN "False"
        ELSE IF absolute_file_delta # absolute_rank_delta THEN "False"
        ELSE path_is_empty(b, hm, bishop, rank, file)

\* Chess.validate_queen_move
validate_queen_move(b, hm, queen, rank, file, promotion) ==
    LET absolute_file_delta == Abs(file - queen.file)
        absolute_rank_delta == Abs(rank - queen.rank)
        bishops_move == absolute_file_delta = absolute_rank_delta
        rooks_move == (absolute_file_delta # 0) # (absolute_rank_delta # 0)
    IN  IF promotion # "NONE" THEN "False"
        ELSE IF ~(bishops_move \/ rooks_move) THEN "False"
        ELSE path_is_empty(b, hm, queen, rank, file)

\* `if not first: return False` followed by `return second`: second runs
\* only when first is True, and an exception of first is the outcome.
and_then(first, second) == IF first # "True" THEN first ELSE second

\* `if self.hypothetical_check(...): return False`, else carry on (True).
not_in_check(check) ==
    IF check = "True" THEN "False"
    ELSE IF check = "False" THEN "True" ELSE check

\* The loop over the enemies in hypothetical_check, given what the
\* validation of each enemy gives.
any_check(checks) ==
    IF checks \cap Exceptions # {}
    THEN CHOOSE e \in checks \cap Exceptions : TRUE
    ELSE Bool("True" \in checks)

RECURSIVE validate_move(_, _, _, _, _, _, _, _, _, _, _)
RECURSIVE hypothetical_check(_, _, _, _, _)

\* Chess.validate_king_move: inhyp says self.hypothetical_moves is not None.
validate_king_move(b, turn, hm, inhyp, king, rank, file, promotion) ==
    LET absolute_file_delta == Abs(file - king.file)
        absolute_rank_delta == Abs(rank - king.rank)
        rook_start == IF file = 2 THEN 0 ELSE 7
        rook_end == IF file = 2 THEN 3 ELSE 5
        empty_files == IF file = 2 THEN {1, 2, 3} ELSE {5, 6}
        rook == get_piece(b, hm, rank, rook_start)
        victim == get_piece(b, hm, rank, file)
    IN  IF promotion # "NONE" THEN "False"
        ELSE IF absolute_rank_delta = 0 /\ ~king.has_moved
                /\ absolute_file_delta > 1
        THEN
            IF file \notin {2, 6} THEN "False"
            ELSE IF rook = None \/ rook.has_moved THEN "False"
            ELSE IF \E empty_file \in empty_files :
                        get_piece(b, hm, rank, empty_file) # None
            THEN "False"
            ELSE and_then(
                     not_in_check(hypothetical_check(b, turn, inhyp,
                                                     king.side, <<>>)),
                     not_in_check(hypothetical_check(
                         b, turn, inhyp, king.side,
                         <<[piece |-> king, rank |-> rank, file |-> rook_end,
                            promotion |-> "NONE"]>>)))
        ELSE IF absolute_file_delta > 1 \/ absolute_rank_delta > 1
        THEN "False"
        ELSE Bool(victim = None \/ victim.side # king.side)

\* validate_move without the test of the side on move.
validate_move_any_side(b, turn, hm, inhyp, start_rank, start_file, end_rank, end_file, promotion, check_allowed, hypothetical_opponent_turn) ==
    IF start_file = end_file /\ start_rank = end_rank THEN "False"
    ELSE LET piece == get_piece(b, hm, start_rank, start_file)
         IN
         IF piece = None THEN "False"
         ELSE IF ~on_board(end_rank, end_file) THEN "False"
         ELSE and_then(
                CASE piece.piece_type = "PAWN" ->
                       validate_pawn_move(b, hm, piece, end_rank, end_file,
                                          promotion, TRUE)
                  [] piece.piece_type = "ROOK" ->
                       validate_rook_move(b, hm, piece, end_rank, end_file,
                                          promotion)
                  [] piece.piece_type = "KNIGHT" ->
                       validate_knight_move(b, hm, piece, end_rank, end_file,
                                            promotion)
                  [] piece.piece_type = "BISHOP" ->
                       validate_bishop_move(b, hm, piece, end_rank, end_file,
                                            promotion)
                  [] piece.piece_type = "QUEEN" ->
                       validate_queen_move(b, hm, piece, end_rank, end_file,
                                           promotion)
                  [] piece.piece_type = "KING" ->
                       validate_king_move(b, turn, hm, inhyp, piece, end_rank,
                                          end_file, promotion),
                IF check_allowed THEN "True"
                ELSE not_in_check(hypothetical_check(
                         b, turn, inhyp, piece.side,
                         <<[piece |-> piece, rank |-> end_rank,
                            file |-> end_file, promotion |-> "NONE"]>>)))

\* Chess.validate_move
validate_move(b, turn, hm, inhyp, start_rank, start_file, end_rank, end_file, promotion, check_allowed, hypothetical_opponent_turn) ==
    IF start_file = end_file /\ start_rank = end_rank THEN "False"
    ELSE LET piece == get_piece(b, hm, start_rank, start_file)
         IN
         IF piece = None THEN "False"
         ELSE IF ~on_board(end_rank, end_file) THEN "False"
         ELSE IF piece.side # turn /\ ~hypothetical_opponent_turn THEN "False"
         ELSE and_then(
                CASE piece.piece_type = "PAWN" ->
                       validate_pawn_move(b, hm, piece, end_rank, end_file,
                                          promotion, TRUE)
                  [] piece.piece_type = "ROOK" ->
                       validate_rook_move(b, hm, piece, end_rank, end_file,
                                          promotion)
                  [] piece.piece_type = "KNIGHT" ->
                       validate_knight_move(b, hm, piece, end_rank, end_file,
                                            promotion)
                  [] piece.piece_type = "BISHOP" ->
                       validate_bishop_move(b, hm, piece, end_rank, end_file,
                                            promotion)
                  [] piece.piece_type = "QUEEN" ->
                       validate_queen_move(b, hm, piece, end_rank, end_file,
                                           promotion)
                  [] piece.piece_type = "KING" ->
                       validate_king_move(b, turn, hm, inhyp, piece, end_rank,
                                          end_file, promotion),
                IF check_allowed THEN "True"
                ELSE not_in_check(hypothetical_check(
                         b, turn, inhyp, piece.side,
                         <<[piece |-> piece, rank |-> end_rank,
                            file |-> end_file, promotion |-> "NONE"]>>)))

\* Chess.hypothetical_check for moves given as (piece, rank, file[, promotion]).
\* The king and the enemies are read from the Piece table; a piece the moves
\* relocate is replaced by a MockPiece on its new square.  The square the
\* enemies aim at always holds the king, so path_is_empty does not raise
\* here, and the order in which the rows are visited does not show.
hypothetical_check(b, turn, inhyp, side, moves) ==
    LET kings == {p \in RowsOf(b, side) : p.piece_type = "KING"}
        changed(p) == {i \in 1..Len(moves) : moves[i].piece.id = p.id}
        mocked(p) ==
            IF changed(p) = {} THEN p
            ELSE LET move == moves[CHOOSE i \in changed(p) :
                                       \A j \in changed(p) : j <= i]
                 IN  MockPiece(p, move.rank, move.file,
                               IF move.promotion # "NONE" THEN move.promotion
                               ELSE move.piece.piece_type)
    IN  IF inhyp THEN "RuntimeError"
        ELSE IF kings = {} THEN "DoesNotExist"
        ELSE LET king == mocked(CHOOSE k \in kings : TRUE)
             IN  any_check({validate_move(b, turn, moves, TRUE,
                                          enemy.rank, enemy.file,
                                          king.rank, king.file, "NONE",
                                          TRUE, TRUE) :
                            enemy \in {mocked(e) :
                                       e \in RowsOf(b, other(side))}})

(***************************************************************************)
(* Move generation.  A candidate is <<end_rank, end_file, promotion>>.     *)
(***************************************************************************)
\* Chess.get_moves_in_direction
RECURSIVE moves_from(_, _, _, _, _, _)
moves_from(b, piece, rank, file, rank_direction, file_direction) ==
    LET r == rank + rank_direction
        f == file + file_direction
        target == get_piece(b, <<>>, r, f)
    IN  IF ~on_board(r, f) THEN {}
        ELSE (IF target = None \/ target.side # piece.side
              THEN {<<r, f, "NONE">>} ELSE {})
             \cup (IF target # None THEN {}
                   ELSE moves_from(b, piece, r, f, rank_direction,
                                   file_direction))

get_moves_in_direction(b, piece, rank_direction, file_direction) ==
    moves_from(b, piece, piece.rank, piece.file, rank_direction,
               file_direction)

\* Chess.get_pawn_moves: the squares the generator accepts.  On the far rank
\* it yields the four promotions; anywhere else it reads the variable piece
\* before assigning it and raises UnboundLocalError.
pawn_options(b, pawn) ==
    {o \in {<<1, 0>>, <<2, 0>>, <<1, -1>>, <<1, 1>>} :
        LET rank == pawn.rank + o[1] * forwards(pawn.side)
            file == pawn.file + o[2]
        IN  on_board(rank, file)
            /\ validate_pawn_move(b, <<>>, pawn, rank, file, "NONE", FALSE)
               = "True"}

get_pawn_moves(b, pawn) ==
    LET far_rank == IF pawn.side = "HOST" THEN 7 ELSE 0
        squares == {<<pawn.rank + o[1] * forwards(pawn.side),
                      pawn.file + o[2]>> : o \in pawn_options(b, pawn)}
    IN  [raises |-> \E sq \in squares : sq[1] # far_rank,
         moves |-> {<<sq[1], sq[2], promotion>> :
                    sq \in {s \in squares : s[1] = far_rank},
                    promotion \in {"ROOK", "KNIGHT", "BISHOP", "QUEEN"}}]

\* Chess.get_rook_moves
get_rook_moves(b, rook) ==
    UNION {get_moves_in_direction(b, rook, d[1], d[2]) :
           d \in {<<-1, 0>>, <<1, 0>>, <<0, -1>>, <<0, 1>>}}

\* Chess.get_knight_moves: the destination is not tested with on_board.
get_knight_moves(b, knight) ==
    {<<knight.rank + a[1] * rank_direction,
       knight.file + a[2] * file_direction, "NONE">> :
        a \in {<<1, 2>>, <<2, 1>>}, rank_direction \in {-1, 1},
        file_direction \in {-1, 1}}
    \cap {m \in (-2..9) \X (-2..9) \X {"NONE"} :
            LET victim == get_piece(b, <<>>, m[1], m[2])
            IN  victim = None \/ victim.side # knight.side}

\* Chess.get_bishop_moves
get_bishop_moves(b, bishop) ==
    UNION {get_moves_in_direction(b, bishop, d[1], d[2]) :
           d \in {<<-1, -1>>, <<-1, 1>>, <<1, -1>>, <<1, 1>>}}

\* Chess.get_queen_moves
get_queen_moves(b, queen) ==
    UNION {get_moves_in_direction(b, queen, d[1], d[2]) :
           d \in ({-1, 0, 1} \X {-1, 0, 1}) \ {<<0, 0>>}}

\* Chess.get_king_moves: the castling tests may raise.
get_king_moves(b, turn, king) ==
    LET steps == {<<king.rank + d[1], king.file + d[2], "NONE">> :
                  d \in ({-1, 0, 1} \X {-1, 0, 1}) \ {<<0, 0>>}}
        near == {m \in steps :
                   /\ on_board(m[1], m[2])
                   /\ LET victim == get_piece(b, <<>>, m[1], m[2])
                      IN  victim = None \/ victim.side # king.side}
        castle(file_direction) ==
            validate_king_move(b, turn, <<>>, FALSE, king, king.rank,
                               king.file + file_direction, "NONE")
    IN  [raises |-> ~king.has_moved
                    /\ \E fd \in {-2, 2} : IsExc(castle(fd)),
         moves |-> near \cup
                   (IF king.has_moved THEN {}
                    ELSE {<<king.rank, king.file + fd, "NONE">> :
                          fd \in {fd \in {-2, 2} : castle(fd) = "True"}})]

\* What the generator of a piece does: the candidates it yields and whether
\* it raises.
candidates(b, turn, piece) ==
    CASE piece.piece_type = "PAWN" -> get_pawn_moves(b, piece)
      [] piece.piece_type = "ROOK" ->
           [raises |-> FALSE, moves |-> get_rook_moves(b, piece)]
      [] piece.piece_type = "KNIGHT" ->
           [raises |-> FALSE, moves |-> get_knight_moves(b, piece)]
      [] piece.piece_type = "BISHOP" ->
           [raises |-> FALSE, moves |-> get_bishop_moves(b, piece)]
      [] piece.piece_type = "QUEEN" ->
           [raises |-> FALSE, moves |-> get_queen_moves(b, piece)]
      [] piece.piece_type = "KING" -> get_king_moves(b, turn, piece)

\* Chess.possible_moves: every candidate is handed to hypothetical_check as
\* the tuple (start_rank, start_file, end_rank, end_file, promotion), whose
\* first element is an int where a piece is expected: the call raises
\* (DoesNotExist without a king, otherwise AttributeError on move[0].id)
\* before any move is yielded.  The generator therefore either raises or,
\* when no piece of the side has a candidate, yields nothing.
possible_moves(b, turn, side) ==
    LET gens == {candidates(b, turn, piece) : piece \in RowsOf(b, side)}
    IN  [raises |-> \E g \in gens : g.raises \/ g.moves # {},
         moves |-> {}]

(***************************************************************************)
(* Applying a move, snapshots.                                             *)
(***************************************************************************)
Promotions == PieceTypes \cup {"NONE"}
EndCoords == -1..8
Moves == [start_rank : Ranks, start_file : Files, end_rank : EndCoords,
          end_file : EndCoords, promotion : Promotions]

\* Chess.make_move, the validation: "True", "False" or the exception.
make_move(b, turn, mv) ==
    validate_move(b, turn, <<>>, FALSE, mv.start_rank, mv.start_file,
                  mv.end_rank, mv.end_file, mv.promotion, FALSE, FALSE)

\* Chess.make_move, the changes of an accepted move: the piece is saved on
\* its new square, then the row get_piece finds on that square is deleted.
\* That row is the moved piece itself when the square was empty; when the
\* square held a piece two rows match and the database returns either.
make_move_boards(b, mv) ==
    LET start == <<mv.start_rank, mv.start_file>>
        end == <<mv.end_rank, mv.end_file>>
        piece == [piece_type |-> IF mv.promotion # "NONE" THEN mv.promotion
                                 ELSE b[start].piece_type,
                  side |-> b[start].side,
                  has_moved |-> TRUE,
                  first_move_last_turn |-> ~b[start].has_moved]
        target_is_piece == [b EXCEPT ![start] = Empty]
        target_is_victim == [b EXCEPT ![start] = Empty, ![end] = piece]
    IN  IF b[end] = Empty THEN {target_is_piece}
        ELSE {target_is_piece, target_is_victim}

\* str(models.Piece.rank) + str(models.Piece.file): the text of the two field
\* objects, the same for every piece.
SquareText == "<Piece.rank><Piece.file>"

\* Chess.freeze_game, the castling options of one king: a set of file
\* directions, or an exception.
castling_options(b, turn, side) ==
    LET kings == {p \in RowsOf(b, side) : p.piece_type = "KING"}
        king == CHOOSE k \in kings : TRUE
        try(fd) == validate_king_move(b, turn, <<>>, FALSE, king, king.rank,
                                      king.file + fd, "NONE")
    IN  IF kings = {} THEN [raises |-> TRUE, options |-> {}]
        ELSE IF king.has_moved THEN [raises |-> FALSE, options |-> {}]
        ELSE [raises |-> \E fd \in {-2, 2} : IsExc(try(fd)),
              options |-> {fd \in {-2, 2} : try(fd) = "True"}]

\* Chess.freeze_game, the text of one piece.
piece_text(b, turn, piece) ==
    LET abbrev == CASE piece.piece_type = "KNIGHT" ->
                         IF piece.side = "HOST" THEN "N" ELSE "n"
                    [] piece.piece_type = "PAWN" -> "P"
                    [] piece.piece_type = "ROOK" -> "R"
                    [] piece.piece_type = "BISHOP" -> "B"
                    [] piece.piece_type = "QUEEN" -> "Q"
                    [] piece.piece_type = "KING" -> "K"
        options == castling_options(b, turn, piece.side).options
    IN  abbrev \o SquareText \o
        (IF piece.piece_type = "PAWN" /\ piece.first_move_last_turn
         THEN "X" ELSE "") \o
        (IF piece.piece_type = "KING" /\ -2 \in options THEN "X" ELSE "") \o
        (IF piece.piece_type = "KING" /\ 2 \in options THEN "Y" ELSE "")

RECURSIVE arrangement_from(_, _, _)
arrangement_from(b, turn, n) ==
    IF n > 63 THEN ""
    ELSE LET rank == n \div 8
             file == n % 8
         IN  (IF b[<<rank, file>>] = Empty THEN ""
              ELSE piece_text(b, turn, Row(b, rank, file)))
             \o arrangement_from(b, turn, n + 1)

\* Chess.freeze_game: turn is game.current_turn when it is called.
freeze_game(b, turn) ==
    IF castling_options(b, turn, turn).raises
       \/ castling_options(b, turn, other(turn)).raises
    THEN [raises |-> TRUE, arrangement |-> ""]
    ELSE [raises |-> FALSE, arrangement |-> arrangement_from(b, turn, 0)]

(***************************************************************************)
(* Clocks.                                                                 *)
(***************************************************************************)
\* boundary reading the clock of the side that is not on move.
boundary_other_clock(turn, t_last, t_host, t_away, t_extra) ==
    t_last + (IF turn = "HOST" THEN t_away ELSE t_host) + t_extra

\* Timer.boundary
boundary(turn, t_last, t_host, t_away, t_extra) ==
    t_last + (IF turn = "HOST" THEN t_host ELSE t_away) + t_extra

\* turn_end charging the whole turn, fixed extra time included.
turn_end_no_extra(side, current_time, t_last, t_host, t_away, t_extra, t_increment) ==
    LET timer_delta == t_increment - (current_time - t_last)
    IN  [host_time |-> IF side = "HOST" THEN t_host + timer_delta
                       ELSE t_host,
         away_time |-> IF side = "HOST" THEN t_away
                       ELSE t_away + timer_delta,
         last_turn |-> current_time]

\* Timer.turn_end: the new [host_time, away_time, last_turn].
turn_end(side, current_time, t_last, t_host, t_away, t_extra, t_increment) ==
    LET turn_length == current_time - t_last
        main_time_used == IF turn_length > t_extra
                          THEN turn_length - t_extra ELSE 0
        timer_delta == t_increment - main_time_used
    IN  [host_time |-> IF side = "HOST" THEN t_host + timer_delta
                       ELSE t_host,
         away_time |-> IF side = "HOST" THEN t_away
                       ELSE t_away + timer_delta,
         last_turn |-> current_time]

\* Game.__init__: every Game object is built with both clocks set to the
\* main thinking time, whatever the row holds.
loaded_host_time == main_thinking_time
loaded_away_time == main_thinking_time

\* game.timer.boundary of the Game object a request works on.
request_boundary ==
    boundary(current_turn, last_turn, loaded_host_time, loaded_away_time,
             fixed_extra_time)

(***************************************************************************)
(* The event handlers.  last is the answer to the latest request: the      *)
(* handler, the side of the socket, the argument and the result (a         *)
(* RequestError code, the name of an unhandled exception, or how the       *)
(* handler returned).                                                      *)
(***************************************************************************)
Conclusions == {"GAME_NOT_COMPLETE", "CHECKMATE", "RESIGN", "TIME",
                "STALEMATE", "THREEFOLD_REPETITION", "FIFTY_MOVE_RULE",
                "AGREED_DRAW"}

Answer(op, side, arg, result) ==
    last' = [op |-> op, side |-> side, arg |-> arg, result |-> result]

game_vars == <<board, current_turn, turn_number, last_kill_or_pawn_move,
               states, host_time, away_time, last_turn,
               host_offering_draw, away_offering_draw,
               other_valid_draw_claim, winner, conclusion_type, ended_at,
               rated>>
config_vars == <<main_thinking_time, fixed_extra_time,
                 time_increment_per_turn>>

\* The fields of a Game row, as an object loaded from it holds them.
GameRow(turn, number, t_last, t_host, t_away, kill, host_offer, away_offer, claim, won, conclusion, ended) ==
    [current_turn |-> turn, turn_number |-> number, last_turn |-> t_last,
     host_time |-> t_host, away_time |-> t_away,
     last_kill_or_pawn_move |-> kill, host_offering_draw |-> host_offer,
     away_offering_draw |-> away_offer, other_valid_draw_claim |-> claim,
     winner |-> won, conclusion_type |-> conclusion, ended_at |-> ended]

\* No move handler is between its make_move and its turn_number += 1.
NoRequest ==
    [side |-> "NONE",
     game |-> GameRow("NONE", 0, 0, 0, 0, 0, FALSE, FALSE, "NONE",
                      "GAME_NOT_COMPLETE", "GAME_NOT_COMPLETE", NoTime)]

\* assert_game_in_progress (the game has been started: started_at is set).
game_in_progress == ended_at = NoTime

\* end_game naming the side on move as the winner whatever winner_on_move is.
end_game_winner_side_on_move(reason, winner_on_move) ==
    IF reason \in {"CHECKMATE", "TIME", "RESIGN"} THEN current_turn
    ELSE "DRAW"

\* end_game: the winner it names.
end_game_winner(reason, winner_on_move) ==
    IF reason \in {"CHECKMATE", "TIME", "RESIGN"}
    THEN IF winner_on_move # (current_turn = "HOST") THEN "AWAY" ELSE "HOST"
    ELSE "DRAW"

\* end_game: ratings are recalculated (rated counts the recalculations) and
\* the whole Game object is saved, its clocks as loaded.
end_game(reason, winner_on_move) ==
    /\ rated < MaxRated
    /\ winner' = end_game_winner(reason, winner_on_move)
    /\ rated' = rated + 1
    /\ conclusion_type' = reason
    /\ ended_at' = now
    /\ host_time' = loaded_host_time
    /\ away_time' = loaded_away_time

\* TurnCounter.__iadd__ after an accepted move on board b2: the snapshot is
\* taken after the flip; if freeze_game raises nothing of the turn is saved.
\* Otherwise the turn is saved, __iadd__ returns None and the handler goes on
\* to game.game_state, which no Game has: AttributeError.
advance_turn(side, b2, delays) ==
    LET frozen == freeze_game(b2, other(current_turn))
    IN  IF frozen.raises
        THEN /\ host_time' = loaded_host_time
             /\ away_time' = loaded_away_time
             /\ UNCHANGED <<turn_number, last_turn, current_turn, states,
                            now>>
             /\ Answer("move", side, "", "DoesNotExist")
        ELSE \E d \in delays :
             LET clock == turn_end(current_turn, now + d, last_turn,
                                   loaded_host_time, loaded_away_time,
                                   fixed_extra_time, time_increment_per_turn)
             IN  /\ now + d <= MaxNow
                 /\ now' = now + d
                 /\ turn_number' = turn_number + 1
                 /\ host_time' = clock.host_time
                 /\ away_time' = clock.away_time
                 /\ last_turn' = clock.last_turn
                 /\ current_turn' = other(current_turn)
                 /\ states' = Append(states,
                                     [turn_number |-> turn_number + 1,
                                      arrangement |-> frozen.arrangement])
                 /\ Answer("move", side, "", "AttributeError")

\* games.move
MoveWith(side, mv, delays) ==
    /\ UNCHANGED <<config_vars, request, timer_alive>>
    /\ IF ~game_in_progress
       THEN Answer("move", side, "", "2311") /\ UNCHANGED <<game_vars, now>>
       ELSE IF now >= request_boundary
       THEN /\ end_game("TIME", TRUE)
            /\ Answer("move", side, "", "returned")
            /\ UNCHANGED <<board, current_turn, turn_number,
                           last_kill_or_pawn_move, states, last_turn,
                           host_offering_draw, away_offering_draw,
                           other_valid_draw_claim, now>>
       ELSE IF side # current_turn
       THEN Answer("move", side, "", "2312") /\ UNCHANGED <<game_vars, now>>
       ELSE LET valid == make_move(board, current_turn, mv)
            IN  IF valid = "False"
                THEN /\ Answer("move", side, "", "2313")
                     /\ UNCHANGED <<game_vars, now>>
                ELSE IF IsExc(valid)
                THEN /\ Answer("move", side, "", valid)
                     /\ UNCHANGED <<game_vars, now>>
                ELSE /\ \E b2 \in make_move_boards(board, mv) :
                           /\ board' = b2
                           /\ advance_turn(side, b2, delays)
                     /\ last_kill_or_pawn_move' = turn_number
                     /\ UNCHANGED <<host_offering_draw, away_offering_draw,
                                    other_valid_draw_claim, winner,
                                    conclusion_type, ended_at, rated>>

Move(side, mv) == MoveWith(side, mv, 0..MaxDelay)

\* games.offer_draw
OfferDraw(side) ==
    /\ UNCHANGED <<config_vars, request, timer_alive, now>>
    /\ IF ~game_in_progress
       THEN Answer("offer_draw", side, "", "2311") /\ UNCHANGED game_vars
       ELSE /\ host_offering_draw' = (side = "HOST" \/ host_offering_draw)
            /\ away_offering_draw' = (side = "AWAY" \/ away_offering_draw)
            /\ host_time' = loaded_host_time
            /\ away_time' = loaded_away_time
            /\ Answer("offer_draw", side, "", "returned")
            /\ UNCHANGED <<board, current_turn, turn_number,
                           last_kill_or_pawn_move, states, last_turn,
                           other_valid_draw_claim, winner, conclusion_type,
                           ended_at, rated>>

\* claim_draw testing the offer of the claimant instead of the opponent's.
claim_draw_error_own_offer(side, reason) ==
    IF reason = "AGREED_DRAW"
    THEN IF (side = "HOST" /\ ~host_offering_draw)
            \/ (side = "AWAY" /\ ~away_offering_draw)
         THEN "2322" ELSE "none"
    ELSE IF reason \in {"THREEFOLD_REPETITION", "FIFTY_MOVE_RULE"}
    THEN IF reason # other_valid_draw_claim THEN "2322" ELSE "none"
    ELSE "2321"

\* games.claim_draw: the only handler that does not call
\* assert_game_in_progress.
claim_draw_error(side, reason) ==
    IF reason = "AGREED_DRAW"
    THEN IF (side = "HOST" /\ ~away_offering_draw)
            \/ (side = "AWAY" /\ ~host_offering_draw)
         THEN "2322" ELSE "none"
    ELSE IF reason \in {"THREEFOLD_REPETITION", "FIFTY_MOVE_RULE"}
    THEN IF reason # other_valid_draw_claim THEN "2322" ELSE "none"
    ELSE "2321"

ClaimDraw(side, reason) ==
    /\ UNCHANGED <<config_vars, request, timer_alive, now>>
    /\ IF claim_draw_error(side, reason) # "none"
       THEN /\ Answer("claim_draw", side, reason,
                      claim_draw_error(side, reason))
            /\ UNCHANGED game_vars
       ELSE /\ end_game(reason, TRUE)
            /\ Answer("claim_draw", side, reason, "returned")
            /\ UNCHANGED <<board, current_turn, turn_number,
                           last_kill_or_pawn_move, states, last_turn,
                           host_offering_draw, away_offering_draw,
                           other_valid_draw_claim>>

\* games.timeout
Timeout(side) ==
    /\ UNCHANGED <<config_vars, request, timer_alive, now>>
    /\ IF ~game_in_progress
       THEN Answer("timeout", side, "", "2311") /\ UNCHANGED game_vars
       ELSE IF now < request_boundary
       THEN Answer("timeout", side, "", "2314") /\ UNCHANGED game_vars
       ELSE /\ end_game("TIME", FALSE)
            /\ Answer("timeout", side, "", "returned")
            /\ UNCHANGED <<board, current_turn, turn_number,
                           last_kill_or_pawn_move, states, last_turn,
                           host_offering_draw, away_offering_draw,
                           other_valid_draw_claim>>

\* games.resign
Resign(side) ==
    /\ UNCHANGED <<config_vars, request, timer_alive, now>>
    /\ IF ~game_in_progress
       THEN Answer("resign", side, "", "2311") /\ UNCHANGED game_vars
       ELSE /\ end_game("RESIGN", FALSE)
            /\ Answer("resign", side, "", "returned")
            /\ UNCHANGED <<board, current_turn, turn_number,
                           last_kill_or_pawn_move, states, last_turn,
                           host_offering_draw, away_offering_draw,
                           other_valid_draw_claim>>

\* timing.timer_check, one round of timing.timer_loop: the query selects the
\* rows whose boundary (from the stored clocks) is later than the current
\* time, with no test of started_at or ended_at; events.end_game(game) lacks
\* its reason argument and raises TypeError, which ends the loop.
timer_check_selects ==
    boundary(current_turn, last_turn, host_time, away_time, fixed_extra_time)
        > now

\* timer_check with the comparison turned round, restricted to games in
\* progress and with end_game given its reason: a sweep that does conclude
\* the game, from the row it selected.
TimerCheckEnding ==
    /\ timer_alive
    /\ UNCHANGED <<config_vars, request, timer_alive, now>>
    /\ IF game_in_progress /\ ~timer_check_selects
       THEN /\ end_game("TIME", FALSE)
            /\ Answer("timer_check", "NONE", "", "ended")
            /\ UNCHANGED <<board, current_turn, turn_number,
                           last_kill_or_pawn_move, states, last_turn,
                           host_offering_draw, away_offering_draw,
                           other_valid_draw_claim>>
       ELSE /\ Answer("timer_check", "NONE", "", "returned")
            /\ UNCHANGED game_vars

TimerCheck ==
    /\ timer_alive
    /\ timer_alive' = ~timer_check_selects
    /\ Answer("timer_check", "NONE", "",
              IF timer_check_selects THEN "TypeError" ELSE "returned")
    /\ UNCHANGED <<game_vars, config_vars, request, now>>

\* The clock of the machine.
Tick ==
    /\ now < MaxNow
    /\ now' = now + 1
    /\ UNCHANGED <<game_vars, config_vars, request, timer_alive, last>>

(***************************************************************************)
(* Initial states.  The server never calls layout_board: the rows of the   *)
(* Piece table are created by whoever sets the game up, as the test suite  *)
(* does with make_layout (tests/test_chess.py).  A layout is a set of      *)
(* pieces on squares and the side on move.                                 *)
(***************************************************************************)
Pc(piece_type, side, has_moved) ==
    [piece_type |-> piece_type, side |-> side, has_moved |-> has_moved,
     first_move_last_turn |-> FALSE]

make_layout(layout) ==
    [sq \in Squares |-> IF sq \in DOMAIN layout THEN layout[sq] ELSE Empty]

\* Queen takes g7 with the king behind it: mate.
MateLayout ==
    [turn |-> "HOST",
     pieces |-> (<<5, 5>> :> Pc("KING", "HOST", TRUE))
             @@ (<<6, 0>> :> Pc("QUEEN", "HOST", TRUE))
             @@ (<<7, 7>> :> Pc("KING", "AWAY", TRUE))
             @@ (<<6, 6>> :> Pc("PAWN", "AWAY", FALSE))]

\* A knight pinned to its king by a rook on the same file.
PinLayout ==
    [turn |-> "HOST",
     pieces |-> (<<0, 4>> :> Pc("KING", "HOST", TRUE))
             @@ (<<1, 4>> :> Pc("KNIGHT", "HOST", TRUE))
             @@ (<<7, 4>> :> Pc("ROOK", "AWAY", TRUE))
             @@ (<<7, 0>> :> Pc("KING", "AWAY", TRUE))]

\* A king in check from a rook on its rank, a knight next to it on the
\* far side.
LineLayout ==
    [turn |-> "HOST",
     pieces |-> (<<0, 4>> :> Pc("KING", "HOST", TRUE))
             @@ (<<0, 0>> :> Pc("ROOK", "AWAY", TRUE))
             @@ (<<0, 5>> :> Pc("KNIGHT", "AWAY", TRUE))
             @@ (<<7, 7>> :> Pc("KING", "AWAY", TRUE))]

\* A king on its home rank attacked by a pawn one step from promotion.
PawnLayout ==
    [turn |-> "HOST",
     pieces |-> (<<0, 4>> :> Pc("KING", "HOST", TRUE))
             @@ (<<0, 1>> :> Pc("KNIGHT", "HOST", FALSE))
             @@ (<<1, 3>> :> Pc("PAWN", "AWAY", TRUE))
             @@ (<<7, 4>> :> Pc("KING", "AWAY", TRUE))]

\* A rook whose rank differs from its file, an enemy a knight's move away.
RookLayout ==
    [turn |-> "HOST",
     pieces |-> (<<0, 4>> :> Pc("KING", "HOST", TRUE))
             @@ (<<2, 0>> :> Pc("ROOK", "HOST", TRUE))
             @@ (<<0, 1>> :> Pc("KNIGHT", "AWAY", TRUE))
             @@ (<<7, 7>> :> Pc("KING", "AWAY", TRUE))]

GameLayouts == {MateLayout}
BoardLayouts == {MateLayout, PinLayout, LineLayout, PawnLayout, RookLayout}

\* The time controls of the games: main thinking time, fixed extra time and
\* increment per turn, as find_game receives them.
GameTimeControls == {[main |-> 1, extra |-> 1, increment |-> 1]}
BoardTimeControls == {[main |-> 9, extra |-> 0, increment |-> 0]}

\* Game.create and Game.start_game at time 0, and the layout.
InitWith(layouts, controls) ==
    /\ \E layout \in layouts :
        /\ board = make_layout(layout.pieces)
        /\ current_turn = layout.turn
    /\ \E control \in controls :
        /\ main_thinking_time = control.main
        /\ fixed_extra_time = control.extra
        /\ time_increment_per_turn = control.increment
        /\ host_time = control.main
        /\ away_time = control.main
    /\ turn_number = 1
    /\ last_kill_or_pawn_move = 1
    /\ states = <<>>
    /\ last_turn = 0
    /\ now = 0
    /\ host_offering_draw = FALSE
    /\ away_offering_draw = FALSE
    /\ other_valid_draw_claim = "NONE"
    /\ winner = "GAME_NOT_COMPLETE"
    /\ conclusion_type = "GAME_NOT_COMPLETE"
    /\ ended_at = NoTime
    /\ rated = 0
    /\ timer_alive = TRUE
    /\ request = NoRequest
    /\ last = [op |-> "none", side |-> "NONE", arg |-> "", result |-> ""]

Init == InitWith(GameLayouts, GameTimeControls)

\* The move requests of the clients.  A request that starts on an empty
\* square is answered the same whichever empty square it names, so one empty
\* start stands for them all.
MoveRequests(b) ==
    LET empty_start == CHOOSE sq \in Squares : b[sq] = Empty
    IN  {mv \in Moves :
           \/ b[<<mv.start_rank, mv.start_file>>] # Empty
           \/ <<mv.start_rank, mv.start_file>> = empty_start}

Mv(start_rank, start_file, end_rank, end_file) ==
    [start_rank |-> start_rank, start_file |-> start_file,
     end_rank |-> end_rank, end_file |-> end_file, promotion |-> "NONE"]

\* The move requests of the game of MateLayout: the queen takes the pawn,
\* slides to an empty square, jumps like a knight; the host's king steps
\* aside; the away king takes on g7.
GameMoves == {Mv(6, 0, 6, 6), Mv(6, 0, 6, 1), Mv(6, 0, 4, 1), Mv(5, 5, 4, 5),
              Mv(7, 7, 6, 6)}

\* The reasons the clients claim a draw with: the three the handler knows
\* and one it does not.
ClaimReasons == {"AGREED_DRAW", "THREEFOLD_REPETITION", "FIFTY_MOVE_RULE",
                 "RESIGN"}

Next ==
    \/ \E side \in Sides, mv \in GameMoves : Move(side, mv)
    \/ \E side \in Sides : OfferDraw(side)
    \/ \E side \in Sides, reason \in ClaimReasons : ClaimDraw(side, reason)
    \/ \E side \in Sides : Timeout(side)
    \/ \E side \in Sides : Resign(side)
    \/ TimerCheck
    \/ Tick

Spec == Init /\ [][Next]_vars

\* The rules of the board alone: move requests on a game with ample time.
InitBoard == InitWith(BoardLayouts, BoardTimeControls)

NextBoard ==
    \E side \in Sides, mv \in MoveRequests(board) : MoveWith(side, mv, {0})

SpecBoard == InitBoard /\ [][NextBoard]_vars

(***************************************************************************)
(* The rules of chess the properties refer to: which squares a piece       *)
(* attacks, stated on the board alone.                                     *)
(***************************************************************************)
Between(from, to) ==
    LET rank_delta == to[1] - from[1]
        file_delta == to[2] - from[2]
        steps == Max2(Abs(rank_delta), Abs(file_delta))
    IN  {<<from[1] + i * (rank_delta \div steps),
           from[2] + i * (file_delta \div steps)>> : i \in 1..(steps - 1)}

Attacks(b, from, to) ==
    LET rank_delta == to[1] - from[1]
        file_delta == to[2] - from[2]
        straight == (rank_delta = 0) # (file_delta = 0)
        diagonal == Abs(rank_delta) = Abs(file_delta) /\ rank_delta # 0
        clear == \A sq \in Between(from, to) : b[sq] = Empty
    IN  CASE b[from].piece_type = "PAWN" ->
               rank_delta = forwards(b[from].side) /\ Abs(file_delta) = 1
          [] b[from].piece_type = "KNIGHT" ->
               {Abs(rank_delta), Abs(file_delta)} = {1, 2}
          [] b[from].piece_type = "KING" ->
               Max2(Abs(rank_delta), Abs(file_delta)) = 1
          [] b[from].piece_type = "ROOK" -> straight /\ clear
          [] b[from].piece_type = "BISHOP" -> diagonal /\ clear
          [] b[from].piece_type = "QUEEN" -> (straight \/ diagonal) /\ clear
          [] OTHER -> FALSE

KingAttacked(b, side) ==
    \E k \in Squares, e \in Squares :
        /\ b[k].piece_type = "KING" /\ b[k].side = side
        /\ b[e].side = other(side)
        /\ Attacks(b, e, k)

\* A step in which the move handler accepted a move of the side on move:
\* only then does the board change.
MoveAccepted == last'.op = "move" /\ board' # board

(***************************************************************************)
(* C1: no move that make_move accepts leaves the king of the side that     *)
(* moved attacked by an enemy piece.                                       *)
(***************************************************************************)
C1_NoSelfCheck ==
    [][MoveAccepted => ~KingAttacked(board', current_turn)]_vars

\* A step in which the handler op answered a request (a request answered
\* exactly as the one before it, with nothing changed, leaves no trace).
Handled(op) ==
    /\ last'.op = op
    /\ last' # last \/ game_vars' # game_vars

(***************************************************************************)
(* C2: a move attempt of the side to move made at or after its boundary    *)
(* changes no piece and concludes the game by timeout with the opponent of *)
(* that side as the winner.                                                *)
(***************************************************************************)
C2_MoveAfterBoundary ==
    [][(/\ Handled("move")
        /\ game_in_progress
        /\ last'.side = current_turn
        /\ now >= request_boundary)
       => (/\ board' = board
           /\ conclusion_type' = "TIME"
           /\ winner' = other(current_turn))]_vars

\* No request of the side is accepted by make_move on board b.
NoLegalMove(b, side) ==
    \A mv \in MoveRequests(b) : make_move(b, side, mv) # "True"

(***************************************************************************)
(* C3: when an accepted move leaves the opponent in check with no legal    *)
(* move, the game is concluded as checkmate and the winner is the side     *)
(* that moved.                                                             *)
(***************************************************************************)
C3_CheckmateWinner ==
    [][(/\ MoveAccepted
        /\ KingAttacked(board', other(current_turn))
        /\ NoLegalMove(board', other(current_turn)))
       => (/\ conclusion_type' = "CHECKMATE"
           /\ winner' = current_turn)]_vars

(***************************************************************************)
(* C4: after every accepted move the game ends exactly when the side now   *)
(* to move has no legal move: as checkmate if that side is in check, as    *)
(* stalemate otherwise; with a legal move left the game stays in progress. *)
(***************************************************************************)
C4_ConclusionPriority ==
    [][MoveAccepted =>
        conclusion_type' =
            IF NoLegalMove(board', other(current_turn))
            THEN IF KingAttacked(board', other(current_turn))
                 THEN "CHECKMATE" ELSE "STALEMATE"
            ELSE "GAME_NOT_COMPLETE"]_vars

(***************************************************************************)
(* C5: once the game has a terminal conclusion, no later operation changes *)
(* its conclusion, winner, end time, board, clocks or ratings.             *)
(***************************************************************************)
C5_TerminalImmutable ==
    [][~game_in_progress =>
        UNCHANGED <<conclusion_type, winner, ended_at, board, host_time,
                    away_time, rated>>]_vars

(***************************************************************************)
(* C6: a resignation of either side while the game is in progress, with    *)
(* either side on move, concludes the game as a resignation won by the     *)
(* opponent of the side that resigned.                                     *)
(***************************************************************************)
C6_ResignWinner ==
    [][(Handled("resign") /\ game_in_progress)
       => (/\ last'.result = "returned"
           /\ conclusion_type' = "RESIGN"
           /\ winner' = other(last'.side))]_vars

\* The claim of a draw that the rules allow: an agreed draw on a standing
\* offer of the opponent, or a repetition or fifty-move draw that is
\* currently claimable.
ValidClaim(side, reason) ==
    \/ /\ reason = "AGREED_DRAW"
       /\ IF side = "HOST" THEN away_offering_draw ELSE host_offering_draw
    \/ /\ reason \in {"THREEFOLD_REPETITION", "FIFTY_MOVE_RULE"}
       /\ other_valid_draw_claim = reason

(***************************************************************************)
(* C7: a draw claim ends the game only if it is an agreed draw on a        *)
(* standing offer of the opponent or a currently claimable repetition or   *)
(* fifty-move draw; every other claim is rejected as invalid and changes   *)
(* nothing of the game.                                                    *)
(***************************************************************************)
C7_ClaimDraw ==
    [][Handled("claim_draw") =>
        IF ValidClaim(last'.side, last'.arg)
        THEN /\ last'.result = "returned"
             /\ conclusion_type' = last'.arg
             /\ winner' = "DRAW"
             /\ ended_at' = now
        ELSE /\ last'.result \in {"2321", "2322"}
             /\ UNCHANGED game_vars]_vars

\* An agreed draw was claimed on the offer of the opponent and granted.
C7_Witness ==
    /\ last.op = "claim_draw"
    /\ last.arg = "AGREED_DRAW"
    /\ last.result = "returned"
    /\ IF last.side = "HOST" THEN away_offering_draw ELSE host_offering_draw
    /\ conclusion_type = "AGREED_DRAW"
    /\ winner = "DRAW"

(***************************************************************************)
(* C8: a turn is atomic.  A move request that does not end the game on     *)
(* time either changes nothing of the turn, or the piece has moved, the    *)
(* ply is incremented, the clocks are settled, the side to move is         *)
(* flipped, the snapshot is appended and the handler has gone on to        *)
(* evaluate the conclusion and returned.                                   *)
(***************************************************************************)
C8_TurnAtomic ==
    [][(Handled("move") /\ conclusion_type' = conclusion_type)
       => \/ UNCHANGED <<board, turn_number, current_turn, states, host_time,
                         away_time, last_turn, last_kill_or_pawn_move,
                         other_valid_draw_claim>>
          \/ /\ board' # board
             /\ turn_number' = turn_number + 1
             /\ current_turn' = other(current_turn)
             /\ last_turn' = now'
             /\ Len(states') = Len(states) + 1
             /\ last'.result = "returned"]_vars

(***************************************************************************)
(* C9: in every position possible_moves yields moves for the side to move, *)
(* each of which make_move accepts and which leaves that side's king not   *)
(* attacked; no generator yields a destination off the board.              *)
(***************************************************************************)
C9_PossibleMovesPlayable ==
    /\ ~possible_moves(board, current_turn, current_turn).raises
    /\ \A m \in possible_moves(board, current_turn, current_turn).moves :
          /\ make_move(board, current_turn, m) = "True"
          /\ \A b2 \in make_move_boards(board, m) :
                ~KingAttacked(b2, current_turn)
    /\ \A piece \in RowsOf(board, current_turn) :
          \A c \in candidates(board, current_turn, piece).moves :
             on_board(c[1], c[2])

(***************************************************************************)
(* C10: in every position make_move returns failure for every move that    *)
(* is not among possible_moves of the side to move, and a move answered as *)
(* illegal leaves every piece as it was.                                   *)
(***************************************************************************)
C10_OthersRejected ==
    [][/\ \A mv \in MoveRequests(board)
                    \ possible_moves(board, current_turn, current_turn).moves :
             make_move(board, current_turn, mv) = "False"
       /\ (Handled("move") /\ last'.result = "2313") => board' = board]_vars


(***************************************************************************)
(* The timer of one Game object, driven as tests/test_timing.py drives it: *)
(* the fields of the object are set, then game.timer.turn_end is called    *)
(* with a side and a clock reading and game.timer.boundary is read.  The   *)
(* object is the one Game.create returned, so its clocks are the ones the  *)
(* calls left on it.                                                       *)
(***************************************************************************)
MaxMain == 2
MaxExtra == 2
MaxIncrement == 1
\* The calls stop adding increments to a clock that stands at MaxClock.
MaxClock == 3

TimerControls ==
    [main : 1..MaxMain, extra : 0..MaxExtra, increment : 0..MaxIncrement]

InitTimer == InitWith(GameLayouts, TimerControls)

\* game.timer.turn_end(side, current_time = t) on the object.
TimerTurnEnd(side, t) ==
    LET clock == turn_end(side, t, last_turn, host_time, away_time,
                          fixed_extra_time, time_increment_per_turn)
    IN  /\ clock.host_time <= MaxClock
        /\ clock.away_time <= MaxClock
        /\ now' = t
        /\ host_time' = clock.host_time
        /\ away_time' = clock.away_time
        /\ last_turn' = clock.last_turn
        /\ Answer("turn_end", side, "", "returned")
        /\ UNCHANGED <<config_vars, request, timer_alive, board, current_turn,
                       turn_number, last_kill_or_pawn_move, states,
                       host_offering_draw, away_offering_draw,
                       other_valid_draw_claim, winner, conclusion_type,
                       ended_at, rated>>

\* game.current_turn = side, as the tests set it before reading boundary.
SetTurn(side) ==
    /\ current_turn' = side
    /\ Answer("set_turn", side, "", "returned")
    /\ UNCHANGED <<config_vars, request, timer_alive, board, turn_number,
                   last_kill_or_pawn_move, states, host_time, away_time,
                   last_turn, host_offering_draw, away_offering_draw,
                   other_valid_draw_claim, winner, conclusion_type,
                   ended_at, rated, now>>

NextTimer ==
    \/ \E side \in Sides, t \in now..MaxNow : TimerTurnEnd(side, t)
    \/ \E side \in Sides : SetTurn(side)

SpecTimer == InitTimer /\ [][NextTimer]_vars

\* The remaining main time of a side, of two clocks and in this state.
RemainingOf(side, t_host, t_away) == IF side = "HOST" THEN t_host ELSE t_away
Remaining(side) == RemainingOf(side, host_time, away_time)

(***************************************************************************)
(* C11: at the end of a turn the time the turn took is the clock reading   *)
(* less last_turn; only what exceeds the fixed extra time is taken from    *)
(* the remaining time of the side that moved, the increment is added to    *)
(* it, and last_turn becomes the reading.  A turn no longer than the fixed *)
(* extra time uses no main time.  The other side's clock is untouched.     *)
(***************************************************************************)
C11_TurnEnd ==
    [][Handled("turn_end") =>
        LET side == last'.side
            elapsed == now' - last_turn
            charged == Max2(0, elapsed - fixed_extra_time)
        IN  /\ RemainingOf(side, host_time', away_time') =
                   Remaining(side) - charged + time_increment_per_turn
            /\ RemainingOf(other(side), host_time', away_time') =
                   Remaining(other(side))
            /\ last_turn' = now'
            /\ elapsed <= fixed_extra_time =>
                   RemainingOf(side, host_time', away_time') =
                       Remaining(side) + time_increment_per_turn]_vars

\* The host ended the first turn of a game later than the fixed extra time:
\* main time was used and the increment added.
C11_Witness ==
    /\ last.op = "turn_end"
    /\ last.side = "HOST"
    /\ last_turn = now
    /\ now > fixed_extra_time
    /\ fixed_extra_time > 0
    /\ time_increment_per_turn > 0
    /\ away_time = main_thinking_time
    /\ host_time = main_thinking_time - (now - fixed_extra_time)
                       + time_increment_per_turn

(***************************************************************************)
(* C12: the boundary of the turn is last_turn plus the remaining time of   *)
(* the side to move plus the fixed extra time; the clock of the other side *)
(* plays no part.                                                          *)
(***************************************************************************)
C12_Boundary ==
    boundary(current_turn, last_turn, host_time, away_time, fixed_extra_time)
        = last_turn + Remaining(current_turn) + fixed_extra_time

\* The clocks differ after a turn_end and the away side is on move.
C12_Witness ==
    /\ last.op = "set_turn"
    /\ current_turn = "AWAY"
    /\ host_time # away_time
    /\ last_turn > 0
    /\ fixed_extra_time > 0
    /\ boundary(current_turn, last_turn, host_time, away_time,
                fixed_extra_time) = last_turn + away_time + fixed_extra_time


(***************************************************************************)
(* The move handler under a slow clock: datetime.now() is read once for    *)
(* the timeout check of games.move and again, later, by Timer.turn_end,    *)
(* after the move was validated and the pieces saved.                      *)
(***************************************************************************)
MaxLate == 2

\* A game without fixed extra time and without increment.
ClockTimeControls == {[main |-> 1, extra |-> 0, increment |-> 0]}

InitClock == InitWith(GameLayouts, ClockTimeControls)

NextClock ==
    \/ \E side \in Sides, mv \in GameMoves : MoveWith(side, mv, 0..MaxLate)
    \/ Tick

SpecClock == InitClock /\ [][NextClock]_vars

(***************************************************************************)
(* C13: while the game is in progress the remaining time of neither side   *)
(* is negative, whatever the moves and however late turn_end reads the     *)
(* clock after the timeout check of the same request.                      *)
(***************************************************************************)
C13_ClocksNonNegative ==
    game_in_progress => host_time >= 0 /\ away_time >= 0


(***************************************************************************)
(* C14: a round of timer_check ends, by timeout and with the opponent of   *)
(* the side to move as winner, exactly the started, unfinished games whose *)
(* boundary last_turn + remaining[side to move] + fixed_extra_time has     *)
(* been reached, and leaves every other game unchanged.                    *)
(***************************************************************************)
C14_TimerCheck ==
    [][Handled("timer_check") =>
        IF game_in_progress
           /\ now >= last_turn + Remaining(current_turn) + fixed_extra_time
        THEN /\ conclusion_type' = "TIME"
             /\ winner' = other(current_turn)
             /\ ended_at' = now
        ELSE UNCHANGED game_vars]_vars


(***************************************************************************)
(* Draw claims on a game far into its course.  The rows of the Game and    *)
(* GameState tables are taken as given: the turn number, the turn of the   *)
(* last capture or pawn move, and the snapshots recorded so far, the       *)
(* latest of them the snapshot of the position on the board.  The          *)
(* operations are Chess.game_is_over and the claim_draw handler.           *)
(***************************************************************************)
MaxQuiet == 101
MaxRepeats == 3

\* The snapshot of the position on the board, and the snapshot of another
\* position.
current_arrangement == freeze_game(board, current_turn).arrangement
other_arrangement ==
    freeze_game(make_layout(LineLayout.pieces), "AWAY").arrangement

\* The GameState rows of a game at turn turn: the snapshot of this turn, the
\* same snapshot recorded repeats times before, two turns apart, and a
\* different snapshot in between.
history(turn, repeats) ==
    [i \in 1..(repeats + 2) |->
        IF i = 1
        THEN [turn_number |-> turn - 2 * repeats - 1,
              arrangement |-> other_arrangement]
        ELSE [turn_number |-> turn - 2 * (repeats + 2 - i),
              arrangement |-> current_arrangement]]

InitDraw ==
    /\ InitWith(GameLayouts, GameTimeControls)!1
    /\ InitWith(GameLayouts, GameTimeControls)!2
    /\ last_kill_or_pawn_move = 1
    /\ \E quiet \in 0..MaxQuiet, repeats \in 0..MaxRepeats :
        /\ turn_number = last_kill_or_pawn_move + quiet
        /\ 2 * repeats + 2 < turn_number
        /\ states = history(turn_number, repeats)
    /\ last_turn = 0
    /\ now = 0
    /\ host_offering_draw = FALSE
    /\ away_offering_draw = FALSE
    /\ other_valid_draw_claim = "NONE"
    /\ winner = "GAME_NOT_COMPLETE"
    /\ conclusion_type = "GAME_NOT_COMPLETE"
    /\ ended_at = NoTime
    /\ rated = 0
    /\ timer_alive = TRUE
    /\ request = NoRequest
    /\ last = [op |-> "none", side |-> "NONE", arg |-> "", result |-> ""]

\* Chess.game_is_over.  game.turn_number is a TurnCounter, which defines no
\* comparison: once the snapshots are counted, turn_number >= ... raises
\* TypeError, and the tests for moves, checkmate and stalemate that follow
\* it are never reached.
game_is_over ==
    LET current == {i \in DOMAIN states :
                       states[i].turn_number = turn_number}
        current_state == states[CHOOSE i \in current : TRUE]
        identical_states == {i \in DOMAIN states :
                                states[i].arrangement
                                    = current_state.arrangement}
    IN  IF current = {} THEN "DoesNotExist"
        ELSE IF Cardinality(identical_states) >= 3
        THEN "THREEFOLD_REPETITION"
        ELSE "TypeError"

\* game.game_mode.game_is_over(): it reads and writes nothing else.
GameIsOver ==
    /\ Answer("game_is_over", "NONE", "", game_is_over)
    /\ UNCHANGED <<game_vars, config_vars, request, timer_alive, now>>

NextDraw ==
    \/ GameIsOver
    \/ \E side \in Sides, reason \in ClaimReasons : ClaimDraw(side, reason)

SpecDraw == InitDraw /\ [][NextDraw]_vars

\* The half-moves played since the last capture or pawn move: the move of
\* turn last_kill_or_pawn_move was the capture, the move of turn turn_number
\* is still to be played.
HalfMovesSince == turn_number - last_kill_or_pawn_move - 1

TimesRecorded ==
    Cardinality({i \in DOMAIN states :
                    states[i].arrangement = current_arrangement})

C17_MoveClearsOffers ==
    [][(MoveAccepted /\ turn_number' = turn_number + 1) =>
        ~host_offering_draw' /\ ~away_offering_draw']_vars


(***************************************************************************)
(* The special moves: en passant, castling and promotion.  The layouts are *)
(* set up as tests/test_chess.py sets them up, unmoved pieces and pawns    *)
(* that have just made their first move included, and the clients send     *)
(* move requests on a game with ample time.                                *)
(***************************************************************************)
\* A piece that made its first move on the turn before (the "xy" symbols of
\* make_layout).
PcJustMoved(piece_type, side) ==
    [piece_type |-> piece_type, side |-> side, has_moved |-> TRUE,
     first_move_last_turn |-> TRUE]

\* The host's pawn has just stepped from d2 to d4, next to the away pawn on
\* e4; the away side is on move.
EnPassantLayout ==
    [turn |-> "AWAY",
     pieces |-> (<<0, 0>> :> Pc("KING", "HOST", TRUE))
             @@ (<<3, 3>> :> PcJustMoved("PAWN", "HOST"))
             @@ (<<3, 4>> :> Pc("PAWN", "AWAY", TRUE))
             @@ (<<7, 7>> :> Pc("KING", "AWAY", TRUE))]

\* The host's king and rooks on their home squares, unmoved; an away pawn on
\* g2 attacks f1, the square the king passes over when castling short.
CastleLayout ==
    [turn |-> "HOST",
     pieces |-> (<<0, 4>> :> Pc("KING", "HOST", FALSE))
             @@ (<<0, 0>> :> Pc("ROOK", "HOST", FALSE))
             @@ (<<0, 7>> :> Pc("ROOK", "HOST", FALSE))
             @@ (<<1, 6>> :> Pc("PAWN", "AWAY", TRUE))
             @@ (<<7, 4>> :> Pc("KING", "AWAY", TRUE))]

\* A host pawn on its home square and one a step from the far rank.
PromotionLayout ==
    [turn |-> "HOST",
     pieces |-> (<<0, 4>> :> Pc("KING", "HOST", TRUE))
             @@ (<<1, 0>> :> Pc("PAWN", "HOST", FALSE))
             @@ (<<6, 2>> :> Pc("PAWN", "HOST", TRUE))
             @@ (<<7, 7>> :> Pc("KING", "AWAY", TRUE))]

\* The away pawn has just stepped from f7 to f5, next to the host's pawn on
\* e5; the host is on move.
EnPassantHostLayout ==
    [turn |-> "HOST",
     pieces |-> (<<0, 0>> :> Pc("KING", "HOST", TRUE))
             @@ (<<4, 4>> :> Pc("PAWN", "HOST", TRUE))
             @@ (<<4, 5>> :> PcJustMoved("PAWN", "AWAY"))
             @@ (<<7, 7>> :> Pc("KING", "AWAY", TRUE))]

\* Nothing attacks the home rank: the host may castle either way.
CastleClearLayout ==
    [turn |-> "HOST",
     pieces |-> (<<0, 4>> :> Pc("KING", "HOST", FALSE))
             @@ (<<0, 0>> :> Pc("ROOK", "HOST", FALSE))
             @@ (<<0, 7>> :> Pc("ROOK", "HOST", FALSE))
             @@ (<<7, 4>> :> Pc("KING", "AWAY", TRUE))
             @@ (<<6, 0>> :> Pc("PAWN", "AWAY", FALSE))]

\* test_castle_out_of_check: an away rook on the king's file gives check;
\* the rook on a1 has moved.
CastleCheckLayout ==
    [turn |-> "HOST",
     pieces |-> (<<0, 4>> :> Pc("KING", "HOST", FALSE))
             @@ (<<0, 0>> :> Pc("ROOK", "HOST", TRUE))
             @@ (<<0, 7>> :> Pc("ROOK", "HOST", FALSE))
             @@ (<<3, 4>> :> Pc("ROOK", "AWAY", TRUE))
             @@ (<<7, 3>> :> Pc("KING", "AWAY", TRUE))]

\* test_castle_through_check: the away king castles short through a square
\* the host's bishop attacks; a knight stands between it and the other
\* rook.
CastleAwayLayout ==
    [turn |-> "AWAY",
     pieces |-> (<<7, 4>> :> Pc("KING", "AWAY", FALSE))
             @@ (<<7, 7>> :> Pc("ROOK", "AWAY", FALSE))
             @@ (<<7, 0>> :> Pc("ROOK", "AWAY", FALSE))
             @@ (<<7, 1>> :> Pc("KNIGHT", "AWAY", FALSE))
             @@ (<<6, 4>> :> Pc("BISHOP", "HOST", TRUE))
             @@ (<<0, 3>> :> Pc("KING", "HOST", TRUE))]

\* An away pawn on its home square and one a step from the far rank, which
\* it can reach by capturing.
PromotionAwayLayout ==
    [turn |-> "AWAY",
     pieces |-> (<<7, 4>> :> Pc("KING", "AWAY", TRUE))
             @@ (<<6, 7>> :> Pc("PAWN", "AWAY", FALSE))
             @@ (<<1, 2>> :> Pc("PAWN", "AWAY", TRUE))
             @@ (<<0, 1>> :> Pc("KNIGHT", "HOST", TRUE))
             @@ (<<0, 6>> :> Pc("KING", "HOST", TRUE))]

\* The host's unmoved bishop on c1 can take the knight on f4, which stands
\* beside the away pawn on e4.
BishopLayout ==
    [turn |-> "HOST",
     pieces |-> (<<0, 4>> :> Pc("KING", "HOST", TRUE))
             @@ (<<0, 2>> :> Pc("BISHOP", "HOST", FALSE))
             @@ (<<3, 5>> :> Pc("KNIGHT", "AWAY", TRUE))
             @@ (<<3, 4>> :> Pc("PAWN", "AWAY", TRUE))
             @@ (<<7, 7>> :> Pc("KING", "AWAY", TRUE))]

\* The away king on g2 can step onto g1, on the home rank of the host's
\* unmoved king and rook, two files from that king.
KingRankLayout ==
    [turn |-> "AWAY",
     pieces |-> (<<0, 4>> :> Pc("KING", "HOST", FALSE))
             @@ (<<0, 7>> :> Pc("ROOK", "HOST", FALSE))
             @@ (<<1, 6>> :> Pc("KING", "AWAY", TRUE))]

SpecialLayouts ==
    {EnPassantLayout, EnPassantHostLayout, CastleLayout, CastleClearLayout,
     CastleCheckLayout, CastleAwayLayout, PromotionLayout,
     PromotionAwayLayout, BishopLayout, KingRankLayout}

InitSpecial == InitWith(SpecialLayouts, BoardTimeControls)

SpecSpecial == InitSpecial /\ [][NextBoard]_vars

\* The rule of en passant: the pawn on start may capture to end, an empty
\* square diagonally ahead, because the enemy pawn beside it has just made
\* a double step.
EnPassant(b, start, end) ==
    /\ b[start].piece_type = "PAWN"
    /\ end[1] = start[1] + forwards(b[start].side)
    /\ Abs(end[2] - start[2]) = 1
    /\ b[end] = Empty
    /\ start[1] = (IF b[start].side = "HOST" THEN 4 ELSE 3)
    /\ b[<<start[1], end[2]>>].piece_type = "PAWN"
    /\ b[<<start[1], end[2]>>].side = other(b[start].side)
    /\ b[<<start[1], end[2]>>].first_move_last_turn

(***************************************************************************)
(* C18: when make_move accepts an en passant capture, the captured pawn on *)
(* (start rank, end file) is gone, the capturing pawn stands on the        *)
(* destination, and no other piece has changed.                            *)
(***************************************************************************)
C18_EnPassantCapture ==
    \A start \in Squares, end \in Squares :
        (/\ board[start].side = current_turn
         /\ EnPassant(board, start, end)
         /\ make_move(board, current_turn,
                      Mv(start[1], start[2], end[1], end[2])) = "True")
        => \A b2 \in make_move_boards(board,
                                      Mv(start[1], start[2], end[1], end[2])) :
              /\ b2[start] = Empty
              /\ b2[<<start[1], end[2]>>] = Empty
              /\ b2[end].piece_type = "PAWN"
              /\ b2[end].side = current_turn
              /\ \A sq \in Squares \ {start, end, <<start[1], end[2]>>} :
                    b2[sq] = board[sq]


\* A piece of side by attacks the square.
SquareAttacked(b, sq, by) ==
    \E e \in Squares : b[e].side = by /\ Attacks(b, e, sq)

\* The rule of castling for the king on square k moving to file file of its
\* rank: king and corner rook unmoved, nothing between them, the king not in
\* check, the square it passes over and the square it lands on not attacked.
CastleLegal(b, k, file) ==
    LET side == b[k].side
        corner == <<k[1], IF file < k[2] THEN 0 ELSE 7>>
        passing == <<k[1], (k[2] + file) \div 2>>
        landing == <<k[1], file>>
        lifted == [b EXCEPT ![k] = Empty]
    IN  /\ b[k].piece_type = "KING"
        /\ ~b[k].has_moved
        /\ b[corner].piece_type = "ROOK"
        /\ b[corner].side = side
        /\ ~b[corner].has_moved
        /\ \A sq \in Between(k, corner) : b[sq] = Empty
        /\ ~SquareAttacked(b, k, other(side))
        /\ ~SquareAttacked(lifted, passing, other(side))
        /\ ~SquareAttacked(lifted, landing, other(side))

(***************************************************************************)
(* C19: make_move accepts a move of the king two files along its rank if   *)
(* and only if king and corner rook are unmoved, the squares between them  *)
(* are empty, the king is not in check, and neither the square it passes   *)
(* over nor the square it lands on is attacked.                            *)
(***************************************************************************)
C19_Castling ==
    \A k \in Squares :
        (board[k].piece_type = "KING" /\ board[k].side = current_turn)
        => \A file \in {k[2] - 2, k[2] + 2} \cap Files :
              make_move(board, current_turn, Mv(k[1], k[2], k[1], file))
                  = "True"
              <=> CastleLegal(board, k, file)


(***************************************************************************)
(* C20: make_move accepts a promotion piece only with a pawn move that     *)
(* reaches the far rank, where one is required and is a rook, knight,      *)
(* bishop or queen; every other move that carries a promotion piece is     *)
(* rejected, so that only a pawn arriving on the far rank changes type.    *)
(***************************************************************************)
C20_Promotion ==
    \A mv \in MoveRequests(board) :
        LET piece == board[<<mv.start_rank, mv.start_file>>]
            far_rank == IF piece.side = "HOST" THEN 7 ELSE 0
        IN  make_move(board, current_turn, mv) = "True"
            => IF piece.piece_type = "PAWN" /\ mv.end_rank = far_rank
               THEN mv.promotion \in {"ROOK", "KNIGHT", "BISHOP", "QUEEN"}
               ELSE mv.promotion = "NONE"


\* The rule of the pawn: one square straight ahead onto an empty square, two
\* squares straight ahead by an unmoved pawn over an empty square onto an
\* empty square, one square diagonally ahead onto an enemy piece, or en
\* passant.
PawnRule(b, start, end) ==
    LET side == b[start].side
        ahead == forwards(side) * (end[1] - start[1])
        aside == Abs(end[2] - start[2])
    IN  \/ ahead = 1 /\ aside = 0 /\ b[end] = Empty
        \/ /\ ahead = 2 /\ aside = 0 /\ ~b[start].has_moved
           /\ b[end] = Empty
           /\ b[<<start[1] + forwards(side), start[2]>>] = Empty
        \/ ahead = 1 /\ aside = 1 /\ b[end].side = other(side)
        \/ EnPassant(b, start, end)

\* The promotion piece a request for the move of a pawn to rank carries: a
\* queen on the far rank, none elsewhere.
PromotionFor(side, rank) ==
    IF rank = (IF side = "HOST" THEN 7 ELSE 0) THEN "QUEEN" ELSE "NONE"

(***************************************************************************)
(* C21: validate_pawn_move accepts the move of a pawn if and only if it is *)
(* one square straight ahead onto an empty square, two squares straight    *)
(* ahead by an unmoved pawn with the skipped and the destination square    *)
(* empty, or one square diagonally ahead onto an enemy piece or en         *)
(* passant; every other pawn move is rejected.                             *)
(***************************************************************************)
C21_PawnRule ==
    \A start \in Squares, end \in Squares :
        board[start].piece_type = "PAWN"
        => (validate_pawn_move(board, <<>>, Row(board, start[1], start[2]),
                               end[1], end[2],
                               PromotionFor(board[start].side, end[1]), TRUE)
                = "True"
            <=> PawnRule(board, start, end))


\* The rule of the rook, the bishop and the queen: along a rank or file
\* (rook, queen) or along a diagonal (bishop, queen), over empty squares,
\* onto an empty square or an enemy piece.
SlideRule(b, start, end) ==
    LET rank_delta == end[1] - start[1]
        file_delta == end[2] - start[2]
        straight == (rank_delta = 0) # (file_delta = 0)
        diagonal == Abs(rank_delta) = Abs(file_delta) /\ rank_delta # 0
    IN  /\ CASE b[start].piece_type = "ROOK" -> straight
              [] b[start].piece_type = "BISHOP" -> diagonal
              [] b[start].piece_type = "QUEEN" -> straight \/ diagonal
              [] OTHER -> FALSE
        /\ \A sq \in Between(start, end) : b[sq] = Empty
        /\ b[end].side # b[start].side

\* The validator of the piece on start, asked for the move to end.
slide_validator(b, start, end) ==
    CASE b[start].piece_type = "ROOK" ->
           validate_rook_move(b, <<>>, Row(b, start[1], start[2]),
                              end[1], end[2], "NONE")
      [] b[start].piece_type = "BISHOP" ->
           validate_bishop_move(b, <<>>, Row(b, start[1], start[2]),
                                end[1], end[2], "NONE")
      [] b[start].piece_type = "QUEEN" ->
           validate_queen_move(b, <<>>, Row(b, start[1], start[2]),
                               end[1], end[2], "NONE")

(***************************************************************************)
(* C22: the validator of a rook, bishop or queen accepts a move if and     *)
(* only if it runs along a rank or file (rook), a diagonal (bishop) or     *)
(* either (queen), every square strictly between is empty, and the         *)
(* destination is empty or holds an enemy piece, wherever the piece        *)
(* stands.                                                                 *)
(***************************************************************************)
C22_SlideRule ==
    \A start \in Squares : \A end \in Squares \ {start} :
        board[start].piece_type \in {"ROOK", "BISHOP", "QUEEN"}
        => (slide_validator(board, start, end) = "True"
            <=> SlideRule(board, start, end))


\* A request that names the same square twice, starts on an empty square or
\* on a piece of the side not on move, or ends outside the board.
BadRequest(b, turn, mv) ==
    \/ mv.start_rank = mv.end_rank /\ mv.start_file = mv.end_file
    \/ b[<<mv.start_rank, mv.start_file>>] = Empty
    \/ b[<<mv.start_rank, mv.start_file>>].side # turn
    \/ ~(mv.end_rank \in Ranks /\ mv.end_file \in Files)

(***************************************************************************)
(* C23: make_move fails whenever the start square is empty, holds a piece  *)
(* of the side not on move, equals the destination, or the destination is  *)
(* outside the board; and a move answered as illegal changes nothing.      *)
(***************************************************************************)
C23_BadRequests ==
    /\ [](\A mv \in MoveRequests(board) :
             BadRequest(board, current_turn, mv)
             => make_move(board, current_turn, mv) = "False")
    /\ [][(Handled("move") /\ last'.result = "2313")
              => UNCHANGED game_vars]_vars

\* A request was answered as illegal in a game in progress where a piece of
\* the side not on move could be asked to move, also off the board.
C23_Witness ==
    /\ last.op = "move"
    /\ last.result = "2313"
    /\ game_in_progress
    /\ \E mv \in MoveRequests(board) :
          /\ board[<<mv.start_rank, mv.start_file>>].side
                 = other(current_turn)
          /\ mv.end_rank = 8
          /\ make_move(board, current_turn, mv) = "False"


\* The number of pieces of a side on the board.
PiecesOf(b, side) == Cardinality({sq \in Squares : b[sq].side = side})

(***************************************************************************)
(* C24: make_move rejects every move whose destination holds a piece of    *)
(* the mover's own side, and no accepted move removes a piece of the side  *)
(* that made it.                                                           *)
(***************************************************************************)
C24_OwnPiecesKept ==
    /\ [](\A mv \in MoveRequests(board) :
             (/\ mv.end_rank \in Ranks /\ mv.end_file \in Files
              /\ board[<<mv.end_rank, mv.end_file>>].side = current_turn)
             => make_move(board, current_turn, mv) # "True")
    /\ [][MoveAccepted
              => PiecesOf(board', current_turn)
                     = PiecesOf(board, current_turn)]_vars


\* The squares that hold the king of a side.
KingsOf(b, side) ==
    {sq \in Squares : b[sq].piece_type = "KING" /\ b[sq].side = side}

(***************************************************************************)
(* C25: while the game is in progress each side has exactly one king and   *)
(* the board holds at most 32 pieces, one to a square; the number of       *)
(* pieces never grows.                                                     *)
(***************************************************************************)
C25_BoardInvariant ==
    /\ [](game_in_progress =>
             /\ \A side \in Sides : Cardinality(KingsOf(board, side)) = 1
             /\ PiecesOf(board, "HOST") + PiecesOf(board, "AWAY") <= 32)
    /\ [][PiecesOf(board', "HOST") + PiecesOf(board', "AWAY")
              <= PiecesOf(board, "HOST") + PiecesOf(board, "AWAY")]_vars


(***************************************************************************)
(* C26: the turn number grows by exactly one on each accepted move and     *)
(* never otherwise, the side on move changes exactly when it grows, and in *)
(* every state the number of recorded snapshots equals the turn number,    *)
(* with one snapshot for each turn number.                                 *)
(***************************************************************************)
C26_TurnCounter ==
    /\ [](/\ Len(states) = turn_number
          /\ \A i \in DOMAIN states, j \in DOMAIN states :
                states[i].turn_number = states[j].turn_number => i = j)
    /\ [][/\ MoveAccepted <=> turn_number' = turn_number + 1
          /\ turn_number' # turn_number => turn_number' = turn_number + 1
          /\ current_turn' # current_turn <=> turn_number' # turn_number]_vars


\* self.hypothetical_moves once possible_moves(side) has ended, "None" or
\* "left" (still holding the moves of the last hypothetical_check).  The
\* pieces are visited in the order the database returns them.  The first
\* piece whose generator yields a candidate has it handed to
\* hypothetical_check, which stores the moves in self.hypothetical_moves and
\* then raises on them without clearing the field; a generator that raises
\* before it yields leaves the field as it was; if no generator yields or
\* raises the call returns with the field None.
hypothetical_moves_after(b, turn, side) ==
    LET gens == {candidates(b, turn, piece) : piece \in RowsOf(b, side)}
        ending == {g \in gens : g.raises \/ g.moves # {}}
    IN  IF ending = {} THEN {"None"}
        ELSE {IF g.moves # {} THEN "left" ELSE "None" : g \in ending}

(***************************************************************************)
(* C27: possible_moves is pure: a call for the side on move returns its    *)
(* moves, a second call on the unchanged state would return the same, and  *)
(* when the call has ended the hypothetical overlay is empty again.        *)
(***************************************************************************)
C27_PossibleMovesPure ==
    /\ ~possible_moves(board, current_turn, current_turn).raises
    /\ hypothetical_moves_after(board, current_turn, current_turn)
           = {"None"}


(***************************************************************************)
(* C28: in every reachable state the winner agrees with the conclusion:    *)
(* no winner exactly when the game has no conclusion, a draw exactly for   *)
(* stalemate, threefold repetition, the fifty-move rule and an agreed      *)
(* draw, and for checkmate, resignation and timeout the winner is the      *)
(* opponent of the side that was mated, resigned or ran out of time.       *)
(***************************************************************************)
C28_WinnerConsistent ==
    /\ winner = "GAME_NOT_COMPLETE" <=> conclusion_type = "GAME_NOT_COMPLETE"
    /\ winner = "DRAW" <=>
           conclusion_type \in {"STALEMATE", "THREEFOLD_REPETITION",
                                "FIFTY_MOVE_RULE", "AGREED_DRAW"}
    /\ conclusion_type \in {"CHECKMATE", "TIME"}
           => winner = other(current_turn)
    /\ (/\ conclusion_type = "RESIGN"
        /\ last.op = "resign"
        /\ last.result = "returned")
           => winner = other(last.side)


\* Chess.layout_board with its back row changed (king and queen swapped).
back_row_king_first ==
    <<"ROOK", "KNIGHT", "BISHOP", "KING", "QUEEN", "BISHOP", "KNIGHT",
      "ROOK">>

\* Chess.layout_board: back_row, indexed from 1 (file + 1).
back_row ==
    <<"ROOK", "KNIGHT", "BISHOP", "QUEEN", "KING", "BISHOP", "KNIGHT",
      "ROOK">>

\* Chess.layout_board: the rows it creates on top of the rows of b; has_moved
\* and first_move_last_turn take their column defaults (False).
layout_board(b) ==
    [sq \in Squares |->
        IF sq[1] = 0 THEN Pc(back_row[sq[2] + 1], "HOST", FALSE)
        ELSE IF sq[1] = 7 THEN Pc(back_row[sq[2] + 1], "AWAY", FALSE)
        ELSE IF sq[1] = 1 THEN Pc("PAWN", "HOST", FALSE)
        ELSE IF sq[1] = 6 THEN Pc("PAWN", "AWAY", FALSE)
        ELSE b[sq]]

\* A new game: no Piece row yet, the host on move.
NewGameLayout == [turn |-> "HOST", pieces |-> <<>>]

InitLayout == InitWith({NewGameLayout}, BoardTimeControls)

\* layout_board called on a game that has no piece (tests/test_chess.py
\* test_board_layout); no Game field is written.
LayoutBoard ==
    /\ \A sq \in Squares : board[sq] = Empty
    /\ board' = layout_board(board)
    /\ Answer("layout_board", "NONE", "", "returned")
    /\ UNCHANGED <<current_turn, turn_number, last_kill_or_pawn_move, states,
                   host_time, away_time, last_turn, host_offering_draw,
                   away_offering_draw, other_valid_draw_claim, winner,
                   conclusion_type, ended_at, rated, config_vars, request,
                   timer_alive, now>>

MaxLayoutTurn == 5

\* Opening moves and some requests the rules refuse.
LayoutMoves == {Mv(1, 4, 3, 4), Mv(1, 4, 2, 4), Mv(0, 0, 2, 0),
                Mv(6, 4, 4, 4), Mv(7, 4, 6, 4),
                Mv(0, 1, 2, 2), Mv(0, 1, 2, 0), Mv(0, 6, 2, 5),
                Mv(7, 1, 5, 2), Mv(7, 1, 5, 0), Mv(7, 6, 5, 5)}

NextLayout ==
    \/ LayoutBoard
    \/ /\ turn_number <= MaxLayoutTurn
       /\ \E side \in Sides, mv \in LayoutMoves : MoveWith(side, mv, {0})

SpecLayout == InitLayout /\ [][NextLayout]_vars

\* The standard piece of a back-rank file.
StandardBackRank(file) ==
    CASE file \in {0, 7} -> "ROOK"
      [] file \in {1, 6} -> "KNIGHT"
      [] file \in {2, 5} -> "BISHOP"
      [] file = 3 -> "QUEEN"
      [] file = 4 -> "KING"

\* The standard starting position, square by square.
StandardPosition(sq) ==
    CASE sq[1] = 0 -> [piece_type |-> StandardBackRank(sq[2]),
                       side |-> "HOST", has_moved |-> FALSE,
                       first_move_last_turn |-> FALSE]
      [] sq[1] = 1 -> [piece_type |-> "PAWN", side |-> "HOST",
                       has_moved |-> FALSE, first_move_last_turn |-> FALSE]
      [] sq[1] = 6 -> [piece_type |-> "PAWN", side |-> "AWAY",
                       has_moved |-> FALSE, first_move_last_turn |-> FALSE]
      [] sq[1] = 7 -> [piece_type |-> StandardBackRank(sq[2]),
                       side |-> "AWAY", has_moved |-> FALSE,
                       first_move_last_turn |-> FALSE]
      [] OTHER -> Empty

(***************************************************************************)
(* C29: layout_board on a new game creates exactly the standard starting   *)
(* position: R,N,B,Q,K,B,N,R on files 0..7 of rank 0 for the host and of   *)
(* rank 7 for away, pawns on ranks 1 and 6, every other square empty and   *)
(* every piece unmoved: 32 pieces.                                         *)
(***************************************************************************)
C29_LayoutBoard ==
    last.op = "layout_board" =>
        /\ \A sq \in Squares : board[sq] = StandardPosition(sq)
        /\ Cardinality({sq \in Squares : board[sq] # Empty}) = 32

C29_Witness ==
    /\ last.op = "layout_board"
    /\ board[<<0, 4>>].piece_type = "KING"
    /\ board[<<7, 3>>].piece_type = "QUEEN"
    /\ board[<<6, 0>>].piece_type = "PAWN"


(***************************************************************************)
(* C30: a move request of the player who is not on move changes no game    *)
(* entity (board, clocks, turn number, side to move, conclusion, winner),  *)
(* at any time, also when it arrives after the boundary of the side that   *)
(* is on move.                                                             *)
(***************************************************************************)
C30_OffTurnMoveNoEffect ==
    [][(Handled("move") /\ last'.side # current_turn)
       => UNCHANGED <<board, host_time, away_time, last_turn, turn_number,
                      current_turn, conclusion_type, winner, ended_at>>]_vars


\* The type and side of the piece on every square.
Placement(b) ==
    [sq \in Squares |-> <<b[sq].piece_type, b[sq].side>>]

\* The castling rights a side still has: the directions in which its king
\* and the rook of that corner have not moved.
CastlingRights(b, side) ==
    LET home == IF side = "HOST" THEN 0 ELSE 7
        unmoved(file, piece_type) ==
            /\ b[<<home, file>>].piece_type = piece_type
            /\ b[<<home, file>>].side = side
            /\ ~b[<<home, file>>].has_moved
    IN  {fd \in {-2, 2} :
           /\ unmoved(4, "KING")
           /\ unmoved(IF fd = -2 THEN 0 ELSE 7, "ROOK")}

\* Two states are the same position for the purpose of repetition.
SamePosition(b1, turn1, b2, turn2) ==
    /\ Placement(b1) = Placement(b2)
    /\ turn1 = turn2
    /\ \A side \in Sides : CastlingRights(b1, side) = CastlingRights(b2, side)

(***************************************************************************)
(* C31: the snapshot of freeze_game is a canonical encoding: the current   *)
(* state and any starting layout get equal snapshots exactly when they     *)
(* have the same piece placement, the same side to move and the same       *)
(* castling rights; en-passant eligibility does not enter the snapshot.    *)
(***************************************************************************)
C31_SnapshotCanonical ==
    \A L \in BoardLayouts \cup SpecialLayouts :
        LET b2 == make_layout(L.pieces)
            here == freeze_game(board, current_turn)
            there == freeze_game(b2, L.turn)
        IN  (~here.raises /\ ~there.raises)
            => (here.arrangement = there.arrangement
                <=> SamePosition(board, current_turn, b2, L.turn))


\* The condition of an optional draw holds in the current state.
DrawConditionHolds(reason) ==
    IF reason = "THREEFOLD_REPETITION" THEN TimesRecorded >= 3
    ELSE HalfMovesSince >= 100

JustDoubleStepped(b, turn, sq) ==
    /\ b[sq].piece_type = "PAWN"
    /\ b[sq].side = other(turn)
    /\ sq[1] = (IF b[sq].side = "HOST" THEN 3 ELSE 4)

(***************************************************************************)
(* C33: first_move_last_turn is set only on a pawn whose two-square first  *)
(* move was the ply just played, so make_move accepts a pawn's diagonal    *)
(* move onto an empty square only next to such a pawn.                     *)
(***************************************************************************)
C33_EnPassantFlag ==
    /\ \A sq \in Squares :
          board[sq].first_move_last_turn
              => JustDoubleStepped(board, current_turn, sq)
    /\ \A start \in Squares, end \in Squares :
          (/\ board[start].piece_type = "PAWN"
           /\ board[start].side = current_turn
           /\ end[2] # start[2]
           /\ board[end] = Empty
           /\ make_move(board, current_turn,
                        Mv(start[1], start[2], end[1], end[2])) = "True")
          => JustDoubleStepped(board, current_turn, <<start[1], end[2]>>)


\* The squares that hold a pawn of a side.
PawnsOf(b, side) ==
    {sq \in Squares : b[sq].piece_type = "PAWN" /\ b[sq].side = side}

(***************************************************************************)
(* C34: an accepted move never removes the moving piece and removes at     *)
(* most one enemy piece; a move that neither captures nor moves a pawn     *)
(* leaves last_kill_or_pawn_move as it was, and a capture sets it to the   *)
(* current turn number.                                                    *)
(***************************************************************************)
C34_MoveEffects ==
    [][MoveAccepted =>
        LET enemy == other(current_turn)
            capture == PiecesOf(board', enemy) < PiecesOf(board, enemy)
            pawn_move == PawnsOf(board', current_turn)
                             # PawnsOf(board, current_turn)
        IN  /\ PiecesOf(board', current_turn) = PiecesOf(board, current_turn)
            /\ PiecesOf(board', enemy) >= PiecesOf(board, enemy) - 1
            /\ (~capture /\ ~pawn_move)
                   => last_kill_or_pawn_move' = last_kill_or_pawn_move
            /\ capture => last_kill_or_pawn_move' = turn_number]_vars


(***************************************************************************)
(* The sweep on a game whose side to move stays idle: timer_loop calls     *)
(* timer_check for ever, sleeping TIMER_CHECK_INTERVAL in between, so a    *)
(* round of the live loop is always taken eventually, and the clock of the *)
(* machine advances.  The players may offer draws; no move, claim,         *)
(* resignation or timeout report arrives.                                  *)
(***************************************************************************)
\* Time controls whose first boundary lies within the clock's range.
SweepTimeControls == {c \in TimerControls : c.main + c.extra <= MaxNow}

InitSweep == InitWith(BoardLayouts, SweepTimeControls)

NextSweep ==
    \/ TimerCheck
    \/ Tick
    \/ \E side \in Sides : OfferDraw(side)

SpecSweep ==
    InitSweep /\ [][NextSweep]_vars /\ WF_vars(TimerCheck) /\ WF_vars(Tick)

(***************************************************************************)
(* C35: with the timer loop running and scheduled fairly, a started game   *)
(* whose side to move makes no further move is eventually concluded by     *)
(* timeout, with the other side as the winner.                             *)
(***************************************************************************)
C35_SweepLiveness ==
    <>(conclusion_type = "TIME" /\ winner = other(current_turn))


(***************************************************************************)
(* The sweep interleaved with the move handler.  The handler runs in the   *)
(* server's socket thread and timer_loop in a background task; neither     *)
(* takes a lock or a transaction.  The handler works on the Game object    *)
(* its EventContext loaded when the request arrived: make_move saves the   *)
(* pieces and the object, then turn_number += 1 saves the object again,    *)
(* every field of it.  timer_check may run in between.                     *)
(***************************************************************************)
\* games.move up to and including make_move.
MoveBegin(side, mv) ==
    /\ request.side = "NONE"
    /\ UNCHANGED <<config_vars, timer_alive, now>>
    /\ IF ~game_in_progress
       THEN /\ Answer("move", side, "", "2311")
            /\ UNCHANGED <<game_vars, request>>
       ELSE IF now >= request_boundary
       THEN /\ end_game("TIME", TRUE)
            /\ Answer("move", side, "", "returned")
            /\ UNCHANGED <<board, current_turn, turn_number,
                           last_kill_or_pawn_move, states, last_turn,
                           host_offering_draw, away_offering_draw,
                           other_valid_draw_claim, request>>
       ELSE IF side # current_turn
       THEN /\ Answer("move", side, "", "2312")
            /\ UNCHANGED <<game_vars, request>>
       ELSE LET valid == make_move(board, current_turn, mv)
            IN  IF valid = "False"
                THEN /\ Answer("move", side, "", "2313")
                     /\ UNCHANGED <<game_vars, request>>
                ELSE IF IsExc(valid)
                THEN /\ Answer("move", side, "", valid)
                     /\ UNCHANGED <<game_vars, request>>
                ELSE /\ \E b2 \in make_move_boards(board, mv) : board' = b2
                     /\ last_kill_or_pawn_move' = turn_number
                     /\ host_time' = loaded_host_time
                     /\ away_time' = loaded_away_time
                     /\ request' =
                          [side |-> side,
                           game |-> GameRow(current_turn, turn_number,
                                            last_turn, loaded_host_time,
                                            loaded_away_time, turn_number,
                                            host_offering_draw,
                                            away_offering_draw,
                                            other_valid_draw_claim, winner,
                                            conclusion_type, ended_at)]
                     /\ Answer("move", side, "", "pending")
                     /\ UNCHANGED <<current_turn, turn_number, states,
                                    last_turn, host_offering_draw,
                                    away_offering_draw,
                                    other_valid_draw_claim, winner,
                                    conclusion_type, ended_at, rated>>

\* games.move from game.turn_number += 1 on: TurnCounter.__iadd__ works on
\* the handler's object and saves it, then game.game_state raises.
MoveEnd ==
    /\ request.side # "NONE"
    /\ request' = NoRequest
    /\ UNCHANGED <<config_vars, timer_alive, now, board, rated>>
    /\ LET game == request.game
           frozen == freeze_game(board, other(game.current_turn))
           clock == turn_end(game.current_turn, now, game.last_turn,
                             game.host_time, game.away_time,
                             fixed_extra_time, time_increment_per_turn)
       IN  IF frozen.raises
           THEN /\ Answer("move", request.side, "", "DoesNotExist")
                /\ UNCHANGED <<current_turn, turn_number,
                               last_kill_or_pawn_move, states, host_time,
                               away_time, last_turn, host_offering_draw,
                               away_offering_draw, other_valid_draw_claim,
                               winner, conclusion_type, ended_at>>
           ELSE /\ turn_number' = game.turn_number + 1
                /\ current_turn' = other(game.current_turn)
                /\ host_time' = clock.host_time
                /\ away_time' = clock.away_time
                /\ last_turn' = clock.last_turn
                /\ states' = Append(states,
                                    [turn_number |-> game.turn_number + 1,
                                     arrangement |-> frozen.arrangement])
                /\ last_kill_or_pawn_move' = game.last_kill_or_pawn_move
                /\ host_offering_draw' = game.host_offering_draw
                /\ away_offering_draw' = game.away_offering_draw
                /\ other_valid_draw_claim' = game.other_valid_draw_claim
                /\ winner' = game.winner
                /\ conclusion_type' = game.conclusion_type
                /\ ended_at' = game.ended_at
                /\ Answer("move", request.side, "", "AttributeError")

InitRace == InitWith(GameLayouts, GameTimeControls)

\* The sweep against one handler at a time: resign and timeout, which load
\* the game and save it once, arrive while no move handler is in flight.
NextRace ==
    \/ \E side \in Sides, mv \in GameMoves : MoveBegin(side, mv)
    \/ MoveEnd
    \/ TimerCheck
    \/ Tick
    \/ \E side \in Sides : request.side = "NONE" /\ Resign(side)
    \/ \E side \in Sides : request.side = "NONE" /\ Timeout(side)

SpecRace == InitRace /\ [][NextRace]_vars

EnemyKingCouldCastle(b, turn, file) ==
    LET enemy == other(turn)
        home == IF enemy = "HOST" THEN 0 ELSE 7
        corner == IF file = 2 THEN 0 ELSE 7
        unmoved(sq, piece_type) ==
            /\ b[sq].piece_type = piece_type
            /\ b[sq].side = enemy
            /\ ~b[sq].has_moved
    IN  /\ unmoved(<<home, 4>>, "KING")
        /\ unmoved(<<home, corner>>, "ROOK")
        /\ \A f \in (IF file = 2 THEN {1, 3} ELSE {5}) :
              b[<<home, f>>] = Empty

(***************************************************************************)
(* C37: hypothetical_check is never entered while a hypothetical is        *)
(* active: in every reachable position no move request makes make_move     *)
(* raise RuntimeError, and neither does the castling test that freeze_game *)
(* and possible_moves run for a king, also when an unmoved enemy king on   *)
(* its home rank is tried as an attacker of a king two files from it.      *)
(***************************************************************************)
C37_NoRecursion ==
    /\ \A mv \in MoveRequests(board) :
          make_move(board, current_turn, mv) # "RuntimeError"
    /\ \A sq \in Squares, file_direction \in {-2, 2} :
          board[sq].piece_type = "KING"
              => validate_king_move(board, current_turn, <<>>, FALSE,
                                    Row(board, sq[1], sq[2]), sq[1],
                                    sq[2] + file_direction, "NONE")
                     # "RuntimeError"

C37_Witness ==
    \E file \in {2, 6}, start \in Squares :
        LET home == IF current_turn = "HOST" THEN 7 ELSE 0
        IN  /\ EnemyKingCouldCastle(board, current_turn, file)
            /\ board[start].piece_type = "KING"
            /\ board[start].side = current_turn
            /\ make_move(board, current_turn,
                         Mv(start[1], start[2], home, file))
                   \in {"True", "False"}
            /\ validate_king_move(board, current_turn, <<>>, FALSE,
                                  Row(board, start[1], start[2]), home,
                                  file, "NONE") = "True"


(***************************************************************************)
(* C38: when make_move accepts a castling move, afterwards the king stands *)
(* two files from its start (file 2 or 6), the rook of that side has gone  *)
(* from its corner to the square the king passed over (file 3 or 5) and is *)
(* marked as moved, and no other piece has changed.                        *)
(***************************************************************************)
C38_CastlingEffect ==
    \A k \in Squares, file \in {2, 6} :
        LET mv == Mv(k[1], k[2], k[1], file)
            corner == <<k[1], IF file = 2 THEN 0 ELSE 7>>
            passed == <<k[1], IF file = 2 THEN 3 ELSE 5>>
            landing == <<k[1], file>>
        IN  (/\ board[k].piece_type = "KING"
             /\ board[k].side = current_turn
             /\ k[2] = 4
             /\ make_move(board, current_turn, mv) = "True")
            => \A b2 \in make_move_boards(board, mv) :
                  /\ b2[landing].piece_type = "KING"
                  /\ b2[landing].side = current_turn
                  /\ b2[passed].piece_type = "ROOK"
                  /\ b2[passed].side = current_turn
                  /\ b2[passed].has_moved
                  /\ b2[k] = Empty
                  /\ b2[corner] = Empty
                  /\ \A sq \in Squares \ {k, landing, passed, corner} :
                        b2[sq] = board[sq]


(***************************************************************************)
(* Timeout reports in a game in which both sides have moved: each side has *)
(* a knight to move besides its king, so the turn comes back to a side     *)
(* whose clock turn_end has written.                                       *)
(***************************************************************************)
KnightsLayout ==
    [turn |-> "HOST",
     pieces |-> (<<0, 4>> :> Pc("KING", "HOST", TRUE))
             @@ (<<0, 1>> :> Pc("KNIGHT", "HOST", TRUE))
             @@ (<<7, 1>> :> Pc("KNIGHT", "AWAY", TRUE))
             @@ (<<7, 4>> :> Pc("KING", "AWAY", TRUE))]

ReportMoves == {Mv(0, 1, 2, 2), Mv(7, 1, 5, 2), Mv(0, 1, 2, 0)}

ReportTimeControls == {[main |-> 1, extra |-> 0, increment |-> 1],
                       [main |-> 1, extra |-> 1, increment |-> 0]}

InitReport == InitWith({KnightsLayout}, ReportTimeControls)

NextReport ==
    \/ \E side \in Sides, mv \in ReportMoves : Move(side, mv)
    \/ \E side \in Sides : Timeout(side)
    \/ Tick

SpecReport == InitReport /\ [][NextReport]_vars

(***************************************************************************)
(* C39: a timeout report of either player made before the boundary of the  *)
(* side to move is rejected and leaves the game unchanged; a report made   *)
(* at or after the boundary concludes the game by timeout, won by the side *)
(* that is not on move, whichever player sent it.                          *)
(***************************************************************************)
C39_TimeoutReport ==
    [][(Handled("timeout") /\ game_in_progress) =>
        IF now < last_turn + Remaining(current_turn) + fixed_extra_time
        THEN /\ last'.result = "2314"
             /\ UNCHANGED game_vars
        ELSE /\ last'.result = "returned"
             /\ conclusion_type' = "TIME"
             /\ winner' = other(current_turn)
             /\ ended_at' = now
             /\ UNCHANGED <<board, current_turn, turn_number>>]_vars

C39_Witness ==
    /\ last.op = "timeout"
    /\ last.side = current_turn
    /\ last.result = "returned"
    /\ conclusion_type = "TIME"
    /\ winner = other(current_turn)
    /\ turn_number > 1


(***************************************************************************)
(* C40: saving a game and loading it again reproduces it: the clocks of    *)
(* the loaded Game object are the clocks the row holds, the values that    *)
(* turn_end wrote last, in every state and after any number of moves.      *)
(***************************************************************************)
C40_SaveLoadRoundTrip ==
    /\ loaded_host_time = host_time
    /\ loaded_away_time = away_time

====
